---------------------------- MODULE Spec2Model ----------------------------
(***************************************************************************)
(* Wii Fit Sync (kobejean/Goals, wii-app): the save-file reader            *)
(* (wiifit_reader.c), the response encoder (json_builder.c), the TCP       *)
(* layer (network.c) and the application / sync session (main.c) as one    *)
(* state machine.                                                          *)
(*                                                                         *)
(* Text and raw bytes are sequences of one-byte strings: a printable ASCII *)
(* byte is the character itself, any other byte b is "xHH".  Chr converts  *)
(* a numeric byte to that form.  A C string is the prefix of a byte        *)
(* sequence before its first NUL.                                          *)
(***************************************************************************)
EXTENDS Integers, Sequences, FiniteSets, TLC

Chr ==
    <<
     "x00", "x01", "x02", "x03", "x04", "x05", "x06", "x07",
     "x08", "\t", "\n", "x0B", "x0C", "\r", "x0E", "x0F",
     "x10", "x11", "x12", "x13", "x14", "x15", "x16", "x17",
     "x18", "x19", "x1A", "x1B", "x1C", "x1D", "x1E", "x1F",
     " ", "!", "\"", "#", "$", "%", "&", "'",
     "(", ")", "*", "+", ",", "-", ".", "/",
     "0", "1", "2", "3", "4", "5", "6", "7",
     "8", "9", ":", ";", "<", "=", ">", "?",
     "@", "A", "B", "C", "D", "E", "F", "G",
     "H", "I", "J", "K", "L", "M", "N", "O",
     "P", "Q", "R", "S", "T", "U", "V", "W",
     "X", "Y", "Z", "[", "\\", "]", "^", "_",
     "x60", "a", "b", "c", "d", "e", "f", "g",
     "h", "i", "j", "k", "l", "m", "n", "o",
     "p", "q", "r", "s", "t", "u", "v", "w",
     "x", "y", "z", "{", "|", "}", "~", "x7F",
     "x80", "x81", "x82", "x83", "x84", "x85", "x86", "x87",
     "x88", "x89", "x8A", "x8B", "x8C", "x8D", "x8E", "x8F",
     "x90", "x91", "x92", "x93", "x94", "x95", "x96", "x97",
     "x98", "x99", "x9A", "x9B", "x9C", "x9D", "x9E", "x9F",
     "xA0", "xA1", "xA2", "xA3", "xA4", "xA5", "xA6", "xA7",
     "xA8", "xA9", "xAA", "xAB", "xAC", "xAD", "xAE", "xAF",
     "xB0", "xB1", "xB2", "xB3", "xB4", "xB5", "xB6", "xB7",
     "xB8", "xB9", "xBA", "xBB", "xBC", "xBD", "xBE", "xBF",
     "xC0", "xC1", "xC2", "xC3", "xC4", "xC5", "xC6", "xC7",
     "xC8", "xC9", "xCA", "xCB", "xCC", "xCD", "xCE", "xCF",
     "xD0", "xD1", "xD2", "xD3", "xD4", "xD5", "xD6", "xD7",
     "xD8", "xD9", "xDA", "xDB", "xDC", "xDD", "xDE", "xDF",
     "xE0", "xE1", "xE2", "xE3", "xE4", "xE5", "xE6", "xE7",
     "xE8", "xE9", "xEA", "xEB", "xEC", "xED", "xEE", "xEF",
     "xF0", "xF1", "xF2", "xF3", "xF4", "xF5", "xF6", "xF7",
     "xF8", "xF9", "xFA", "xFB", "xFC", "xFD", "xFE", "xFF" >>

ByteChr(b) == Chr[b + 1]

NUL == "x00"

\* ---------------------------------------------------------------------------
\* C string helpers (strlen / strstr semantics: a string ends at its first NUL)
\* ---------------------------------------------------------------------------

Min(a, b) == IF a < b THEN a ELSE b

Take(s, n) == SubSeq(s, 1, Min(n, Len(s)))

\* The bytes of buf before its first NUL: what strstr, printf("%s") and
\* json_escape_string see of a buffer.
CStr(buf) ==
    IF \E i \in 1..Len(buf) : buf[i] = NUL
    THEN SubSeq(buf, 1, (CHOOSE i \in 1..Len(buf) :
                            /\ buf[i] = NUL
                            /\ \A k \in 1..(i - 1) : buf[k] # NUL) - 1)
    ELSE buf

\* strstr(hay, needle) != NULL, on the C string held in hay.
StrStr(hay, needle) ==
    LET h == CStr(hay)
    IN  \E i \in 1..(Len(h) - Len(needle) + 1) :
            SubSeq(h, i, i + Len(needle) - 1) = needle

\* Plain byte-level containment, NULs included (no C-string cut).
Contains(bytes, needle) ==
    \E i \in 1..(Len(bytes) - Len(needle) + 1) :
        SubSeq(bytes, i, i + Len(needle) - 1) = needle

\* printf conversions
RECURSIVE Dec(_)
Dec(n) == IF n < 10 THEN <<ByteChr(48 + n)>>
          ELSE Dec(n \div 10) \o <<ByteChr(48 + (n % 10))>>

RECURSIVE Zeros(_)
Zeros(k) == IF k <= 0 THEN <<>> ELSE <<"0">> \o Zeros(k - 1)

\* "%d"
FmtD(n) == IF n < 0 THEN <<"-">> \o Dec(0 - n) ELSE Dec(n)

\* "%0<w>d"
FmtPadD(n, w) ==
    IF n < 0 THEN <<"-">> \o Zeros(w - 1 - Len(Dec(0 - n))) \o Dec(0 - n)
    ELSE Zeros(w - Len(Dec(n))) \o Dec(n)

\* ---------------------------------------------------------------------------
\* wiifit_reader.h / wiifit_reader.c : constants
\* ---------------------------------------------------------------------------

MAX_PROFILES == 8
MAX_MEASUREMENTS == 1024
PROFILE_SIZE == 37513              \* 0x9289
PROFILE_NAME_OFFSET == 8           \* 0x08
PROFILE_HEIGHT_OFFSET == 31        \* 0x1F
PROFILE_DOB_OFFSET == 32           \* 0x20
MEASUREMENT_RECORD_SIZE == 21
ACTUAL_MEASUREMENT_OFFSET == 13921 \* 0x3661
NAME_CAP == 23                     \* utf16be_to_utf8: j < 23
NAME_UNITS == 10                   \* parse_profile: 10 UTF-16 units
ERROR_MSG_SIZE == 256              \* char error_msg[256]

WIIFIT_SUCCESS == 0
WIIFIT_ERR_INIT == -1
WIIFIT_ERR_NOT_FOUND == -2
WIIFIT_ERR_READ == -3
WIIFIT_ERR_PARSE == -4
WIIFIT_ERR_MEMORY == -6

SAVE_PATHS ==
    <<
      \* /title/00010000/5246504a/data/FitPlus0.dat
      <<"/","t","i","t","l","e","/","0","0","0","1","0","0","0","0","/","5","2","4","6","5",
        "0","4","a","/","d","a","t","a","/","F","i","t","P","l","u","s","0",".","d","a",
        "t">>,
      \* /title/00010000/52465045/data/FitPlus0.dat
      <<"/","t","i","t","l","e","/","0","0","0","1","0","0","0","0","/","5","2","4","6","5",
        "0","4","5","/","d","a","t","a","/","F","i","t","P","l","u","s","0",".","d","a",
        "t">>,
      \* /title/00010000/52465050/data/FitPlus0.dat
      <<"/","t","i","t","l","e","/","0","0","0","1","0","0","0","0","/","5","2","4","6","5",
        "0","5","0","/","d","a","t","a","/","F","i","t","P","l","u","s","0",".","d","a",
        "t">>,
      \* /title/00010000/5246504A/data/FitPlus0.dat
      <<"/","t","i","t","l","e","/","0","0","0","1","0","0","0","0","/","5","2","4","6","5",
        "0","4","A","/","d","a","t","a","/","F","i","t","P","l","u","s","0",".","d","a",
        "t">>,
      \* /title/00010000/5246504a/data/RPHealth.dat
      <<"/","t","i","t","l","e","/","0","0","0","1","0","0","0","0","/","5","2","4","6","5",
        "0","4","a","/","d","a","t","a","/","R","P","H","e","a","l","t","h",".","d","a",
        "t">>,
      \* /title/00010000/52465045/data/RPHealth.dat
      <<"/","t","i","t","l","e","/","0","0","0","1","0","0","0","0","/","5","2","4","6","5",
        "0","4","5","/","d","a","t","a","/","R","P","H","e","a","l","t","h",".","d","a",
        "t">>,
      \* /title/00010000/52465050/data/RPHealth.dat
      <<"/","t","i","t","l","e","/","0","0","0","1","0","0","0","0","/","5","2","4","6","5",
        "0","5","0","/","d","a","t","a","/","R","P","H","e","a","l","t","h",".","d","a",
        "t">>,
      \* /title/00010004/5246504a/data/FitPlus0.dat
      <<"/","t","i","t","l","e","/","0","0","0","1","0","0","0","4","/","5","2","4","6","5",
        "0","4","a","/","d","a","t","a","/","F","i","t","P","l","u","s","0",".","d","a",
        "t">>,
      \* /title/00010004/52465045/data/FitPlus0.dat
      <<"/","t","i","t","l","e","/","0","0","0","1","0","0","0","4","/","5","2","4","6","5",
        "0","4","5","/","d","a","t","a","/","F","i","t","P","l","u","s","0",".","d","a",
        "t">>,
      \* /title/00010000/52464e4a/data/RPHealth.dat
      <<"/","t","i","t","l","e","/","0","0","0","1","0","0","0","0","/","5","2","4","6","4",
        "e","4","a","/","d","a","t","a","/","R","P","H","e","a","l","t","h",".","d","a",
        "t">>,
      \* /title/00010000/52464e45/data/RPHealth.dat
      <<"/","t","i","t","l","e","/","0","0","0","1","0","0","0","0","/","5","2","4","6","4",
        "e","4","5","/","d","a","t","a","/","R","P","H","e","a","l","t","h",".","d","a",
        "t">>,
      \* /title/00010000/52464e50/data/RPHealth.dat
      <<"/","t","i","t","l","e","/","0","0","0","1","0","0","0","0","/","5","2","4","6","4",
        "e","5","0","/","d","a","t","a","/","R","P","H","e","a","l","t","h",".","d","a",
        "t">>
    >>

NUM_SAVE_PATHS == Len(SAVE_PATHS)

\* "Reader not initialized"
MSG_NotInitialized ==
    <<"R","e","a","d","e","r"," ","n","o","t"," ","i","n","i","t","i","a","l","i","z","e",
      "d">>

\* "No profiles found in save file"
MSG_NoProfiles ==
    <<"N","o"," ","p","r","o","f","i","l","e","s"," ","f","o","u","n","d"," ","i","n"," ",
      "s","a","v","e"," ","f","i","l","e">>

\* "Save not found (ISFS error "
MSG_SaveNotFound1 ==
    <<"S","a","v","e"," ","n","o","t"," ","f","o","u","n","d"," ","(","I","S","F","S"," ",
      "e","r","r","o","r"," ">>

\* "). Tried "
MSG_SaveNotFound2 ==
    <<")","."," ","T","r","i","e","d"," ">>

\* " paths. Last: "
MSG_SaveNotFound3 ==
    <<" ","p","a","t","h","s","."," ","L","a","s","t",":"," ">>

\* "Failed to get file stats (error "
MSG_StatFailed ==
    <<"F","a","i","l","e","d"," ","t","o"," ","g","e","t"," ","f","i","l","e"," ","s","t",
      "a","t","s"," ","(","e","r","r","o","r"," ">>

\* "Failed to allocate "
MSG_AllocFailed1 ==
    <<"F","a","i","l","e","d"," ","t","o"," ","a","l","l","o","c","a","t","e"," ">>

\* " bytes"
MSG_AllocFailed2 ==
    <<" ","b","y","t","e","s">>

\* "Failed to read save file (error "
MSG_ReadFailed ==
    <<"F","a","i","l","e","d"," ","t","o"," ","r","e","a","d"," ","s","a","v","e"," ","f",
      "i","l","e"," ","(","e","r","r","o","r"," ">>

\* ---------------------------------------------------------------------------
\* wiifit_reader.c : pure helpers.  A raw buffer is [size, bytes]: bytes is a
\* function from some offsets to numeric byte values, every other offset
\* below size holds 0.
\* ---------------------------------------------------------------------------

Rd(buf, off) == IF off \in DOMAIN buf.bytes THEN buf.bytes[off] ELSE 0

read_be16(buf, off) == Rd(buf, off) * 256 + Rd(buf, off + 1)

\* A u32 is kept as its two 16-bit halves [hi, lo] (value = hi * 65536 + lo).
read_be32(buf, off) ==
    [hi |-> Rd(buf, off) * 256 + Rd(buf, off + 1),
     lo |-> Rd(buf, off + 2) * 256 + Rd(buf, off + 3)]

IsLeap(y) == (y % 4 = 0 /\ y % 100 # 0) \/ y % 400 = 0

DaysInMonth(y, m) ==
    IF m = 2 THEN (IF IsLeap(y) THEN 29 ELSE 28)
    ELSE IF m \in {4, 6, 9, 11} THEN 30 ELSE 31

\* mktime() on the clamped fields: a day past the end of its month rolls over
\* into the next month (the fields are otherwise already in range).  The
\* time_t is kept as the calendar instant it denotes.
MkTime(year, month, day, hour, min) ==
    IF day <= DaysInMonth(year, month)
    THEN [year |-> year, month |-> month, day |-> day,
          hour |-> hour, min |-> min, sec |-> 0]
    ELSE [year  |-> IF month = 12 THEN year + 1 ELSE year,
          month |-> IF month = 12 THEN 1 ELSE month + 1,
          day   |-> day - DaysInMonth(year, month),
          hour |-> hour, min |-> min, sec |-> 0]

parse_wiifit_date(packed_date) ==
    LET year0  == (packed_date.hi \div 16) % 2048   \* (packed_date >> 20) & 0x7FF
        month0 == (packed_date.hi % 16) + 1         \* ((packed_date >> 16) & 0xF) + 1
        day0   == (packed_date.lo \div 2048) % 32   \* (packed_date >> 11) & 0x1F
        hour0  == (packed_date.lo \div 64) % 32     \* (packed_date >> 6) & 0x1F
        min0   == packed_date.lo % 64               \* packed_date & 0x3F
        year   == IF year0 < 2006 \/ year0 > 2030 THEN 2020 ELSE year0
        month  == IF month0 < 1 \/ month0 > 12 THEN 1 ELSE month0
        day    == IF day0 < 1 \/ day0 > 31 THEN 1 ELSE day0
        hour   == IF hour0 < 0 \/ hour0 > 23 THEN 0 ELSE hour0
        min    == IF min0 < 0 \/ min0 > 59 THEN 0 ELSE min0
    IN  MkTime(year, month, day, hour, min)

\* The UTF-8 bytes one UTF-16 code unit becomes.
Utf8Of(ch) ==
    IF ch < 128 THEN <<ByteChr(ch)>>
    ELSE IF ch < 2048
         THEN <<ByteChr(192 + (ch \div 64)), ByteChr(128 + (ch % 64))>>
         ELSE <<ByteChr(224 + (ch \div 4096)),
                ByteChr(128 + ((ch \div 64) % 64)),
                ByteChr(128 + (ch % 64))>>

\* utf16be_to_utf8(src = buf + off, dst, max_chars): the bytes written to dst
\* before the terminating NUL.
RECURSIVE Utf16Loop(_, _, _, _, _)
Utf16Loop(buf, off, max_chars, i, dst) ==
    IF ~(i < max_chars /\ Len(dst) < NAME_CAP) THEN dst
    ELSE LET ch == read_be16(buf, off + i * 2)
         IN  IF ch = 0 THEN dst
             ELSE Utf16Loop(buf, off, max_chars, i + 1, dst \o Utf8Of(ch))

utf16be_to_utf8(buf, off, max_chars) == Utf16Loop(buf, off, max_chars, 0, <<>>)

\* A float produced as raw / scale (weight_raw / 10.0f and the like).  The
\* IEEE-754 special values are the quotients by zero: 1/0 is +infinity, -1/0
\* is -infinity and 0/0 is not-a-number.
Fixed(raw, scale) == [raw |-> raw, scale |-> scale]

\* A variant of the pass below in which an implausible weight skips the
\* record and the scan goes on.
MeasurementStep_skips_bad(buf, base, i, st) ==
    LET rec == ACTUAL_MEASUREMENT_OFFSET + i * MEASUREMENT_RECORD_SIZE
        weight_raw == read_be16(buf, base + rec + 4)
    IN  IF st.done THEN st
        ELSE IF rec + MEASUREMENT_RECORD_SIZE > PROFILE_SIZE THEN [st EXCEPT !.done = TRUE]
        ELSE IF weight_raw < 300 \/ weight_raw > 1500 THEN st
        ELSE [st EXCEPT !.acc = Append(@,
                    [timestamp   |-> parse_wiifit_date(read_be32(buf, base + rec)),
                     weight_kg   |-> Fixed(weight_raw, 10),
                     bmi         |-> Fixed(read_be16(buf, base + rec + 6), 100),
                     balance_pct |-> Fixed(read_be16(buf, base + rec + 8), 10),
                     has_extended_data |-> 0])]

\* One pass of parse_profile's "read all valid measurements" loop for index
\* i: st.acc holds the records produced so far, st.done says a break was taken.
MeasurementStep(buf, base, i, st) ==
    LET rec == ACTUAL_MEASUREMENT_OFFSET + i * MEASUREMENT_RECORD_SIZE
        weight_raw == read_be16(buf, base + rec + 4)
    IN  IF st.done THEN st
        ELSE IF rec + MEASUREMENT_RECORD_SIZE > PROFILE_SIZE THEN [st EXCEPT !.done = TRUE]
        ELSE IF weight_raw < 300 \/ weight_raw > 1500 THEN [st EXCEPT !.done = TRUE]
        ELSE [st EXCEPT !.acc = Append(@,
                    [timestamp   |-> parse_wiifit_date(read_be32(buf, base + rec)),
                     weight_kg   |-> Fixed(weight_raw, 10),
                     bmi         |-> Fixed(read_be16(buf, base + rec + 6), 100),
                     balance_pct |-> Fixed(read_be16(buf, base + rec + 8), 10),
                     has_extended_data |-> 0])]

\* The passes for the indices a..b in increasing order.
RECURSIVE MeasurementRange(_, _, _, _, _)
MeasurementRange(buf, base, a, b, st) ==
    IF a > b \/ st.done THEN st
    ELSE IF a = b THEN MeasurementStep(buf, base, a, st)
    ELSE LET mid == (a + b) \div 2
         IN  CHOOSE out \in { MeasurementRange(buf, base, mid + 1, b, left) :
                                left \in { MeasurementRange(buf, base, a, mid, st) } } : TRUE

\* A variant of the loop below without the bound i < MAX_MEASUREMENTS: it
\* ends only at a break.
MeasurementLoop_uncapped(buf, base, i, acc) ==
    MeasurementRange(buf, base, i, 2 * MAX_MEASUREMENTS, [acc |-> acc, done |-> FALSE]).acc

\* for (int i = ...; i < MAX_MEASUREMENTS; i++) with the records in acc.
MeasurementLoop(buf, base, i, acc) ==
    MeasurementRange(buf, base, i, MAX_MEASUREMENTS - 1, [acc |-> acc, done |-> FALSE]).acc

Bcd(b) == ((b \div 16) % 16) * 10 + (b % 16)

\* A WiiFitProfile after memset(0).
ZeroProfile ==
    [name |-> <<>>, height_cm |-> 0, birth_year |-> 0, birth_month |-> 0,
     birth_day |-> 0, measurements |-> <<>>, measurement_count |-> 0,
     activity_count |-> 0]

\* parse_profile(profile_data = buf + base, profile): [ret, profile].  The
\* name is the converted string; the slots decoded here have names of at most
\* NAME_CAP bytes, which the name field holds with its terminator.
parse_profile(buf, base, profile) ==
    LET name == utf16be_to_utf8(buf, base + PROFILE_NAME_OFFSET, NAME_UNITS)
        year_bcd == read_be16(buf, base + PROFILE_DOB_OFFSET)
        meas == MeasurementLoop(buf, base, 0, <<>>)
    IN  IF name = <<>>
        THEN [ret |-> 0, profile |-> [profile EXCEPT !.name = <<>>]]
        ELSE [ret |-> 1,
              profile |->
                [profile EXCEPT
                   !.name = name,
                   !.height_cm = Rd(buf, base + PROFILE_HEIGHT_OFFSET),
                   !.birth_year = ((year_bcd \div 4096) % 16) * 1000
                                   + ((year_bcd \div 256) % 16) * 100
                                   + ((year_bcd \div 16) % 16) * 10
                                   + (year_bcd % 16),
                   !.birth_month = Bcd(Rd(buf, base + PROFILE_DOB_OFFSET + 2)),
                   !.birth_day = Bcd(Rd(buf, base + PROFILE_DOB_OFFSET + 3)),
                   !.measurements = meas,
                   !.measurement_count = Len(meas),
                   !.activity_count = 0]]

\* A WiiFitSaveData after memset(0).  profiles holds the first profile_count
\* array entries; the entries past it are all-zero after a memset.
ZeroSaveData ==
    [profiles |-> <<>>, profile_count |-> 0, error_code |-> 0, error_msg |-> <<>>]

\* A variant of the profile loop below that ends at the first blank slot.
RECURSIVE ProfileLoop_stops_at_blank(_, _, _, _)
ProfileLoop_stops_at_blank(buf, size, i, acc) ==
    IF i >= MAX_PROFILES THEN acc
    ELSE IF i * PROFILE_SIZE + PROFILE_SIZE > size THEN acc
    ELSE LET r == parse_profile(buf, i * PROFILE_SIZE, acc.target)
         IN  IF r.ret # 0
             THEN ProfileLoop_stops_at_blank(buf, size, i + 1,
                      [profiles |-> Append(acc.profiles, r.profile), target |-> ZeroProfile])
             ELSE acc

\* wiifit_read_save's profile loop over the slots of a fully read buffer.
\* acc.profiles are the entries profiles[0..profile_count-1] and acc.target is
\* the entry profiles[profile_count] the next slot is decoded into: all-zero
\* after the memset, and whatever a blank slot's decode left in it.
RECURSIVE ProfileLoop(_, _, _, _)
ProfileLoop(buf, size, i, acc) ==
    IF i >= MAX_PROFILES THEN acc
    ELSE IF i * PROFILE_SIZE + PROFILE_SIZE > size THEN acc
    ELSE LET r == parse_profile(buf, i * PROFILE_SIZE, acc.target)
         IN  ProfileLoop(buf, size, i + 1,
                 IF r.ret # 0
                 THEN [profiles |-> Append(acc.profiles, r.profile), target |-> ZeroProfile]
                 ELSE [profiles |-> acc.profiles, target |-> r.profile])

\* snprintf(dst, cap, ...): the C string left in dst.
Snprintf(text, cap) == Take(text, cap - 1)

\* ---------------------------------------------------------------------------
\* The storage provider (ISFS) as the reader sees it: what one call of
\* wiifit_read_save meets.
\* ---------------------------------------------------------------------------

At(off, vals) == [o \in off..(off + Len(vals) - 1) |-> vals[o - off + 1]]

EmptyBytes == [o \in {} |-> 0]

\* One body-test record: timestamp, weight*10, BMI*100, balance*10 (big-endian).
MeasRecord(ts, w, bmi, bal) ==
    << ts.hi \div 256, ts.hi % 256, ts.lo \div 256, ts.lo % 256,
       w \div 256, w % 256, bmi \div 256, bmi % 256, bal \div 256, bal % 256 >>

\* A profile slot at base: UTF-16BE name units, height, BCD date of birth and
\* the leading records of its measurement table.
RECURSIVE Utf16Bytes(_)
Utf16Bytes(units) ==
    IF units = <<>> THEN <<>>
    ELSE <<Head(units) \div 256, Head(units) % 256>> \o Utf16Bytes(Tail(units))

RECURSIVE RecordBytes(_, _)
RecordBytes(base, recs) ==
    IF recs = <<>> THEN EmptyBytes
    ELSE At(base, Head(recs)) @@ RecordBytes(base + MEASUREMENT_RECORD_SIZE, Tail(recs))

Slot(base, units, height, dob, recs) ==
    At(base + PROFILE_NAME_OFFSET, Utf16Bytes(units))
      @@ At(base + PROFILE_HEIGHT_OFFSET, <<height>>)
      @@ At(base + PROFILE_DOB_OFFSET, dob)
      @@ RecordBytes(base + ACTUAL_MEASUREMENT_OFFSET, recs)

\* 0x7E7455CF = 2023-05-10 23:15, 0x7E7459D0 = 2023-05-11 07:16
TS_20230510_2315 == [hi |-> 32372, lo |-> 21967]

TS_20230511_0716 == [hi |-> 32372, lo |-> 22992]

SaveFiles ==
    { \* a file of one blank slot
      [size |-> PROFILE_SIZE, bytes |-> EmptyBytes],
      \* a file too short to hold a slot
      [size |-> 100, bytes |-> At(PROFILE_NAME_OFFSET, <<0, 65>>)],
      \* one profile "AB", 170 cm, 1990-05-10, two measurements then a blank record
      [size |-> PROFILE_SIZE,
       bytes |-> Slot(0, <<65, 66>>, 170, <<25, 144, 5, 16>>,
                      << MeasRecord(TS_20230510_2315, 653, 2210, 510),
                         MeasRecord(TS_20230511_0716, 648, 2193, 495) >>)],
      \* slot 0 occupied, slot 1 blank, slot 2 occupied (name U+00E9, no measurement)
      [size |-> 3 * PROFILE_SIZE,
       bytes |-> Slot(0, <<65>>, 180, <<25, 133, 18, 49>>,
                      << MeasRecord(TS_20230510_2315, 700, 2160, 500) >>)
                 @@ Slot(2 * PROFILE_SIZE, <<233>>, 160, <<32, 1, 1, 2>>, <<>>)],
      \* nine slots, slot i named by the one letter "A" + i, and 100 bytes more
      [size |-> 9 * PROFILE_SIZE + 100,
       bytes |-> [o \in { i * PROFILE_SIZE + PROFILE_NAME_OFFSET + 1 : i \in 0..8 } |->
                    65 + (o \div PROFILE_SIZE)]] }

IsfsErrors == {-106, -102}

ReadEnvs ==
    [ open_at   : {0, 1, 3, NUM_SAVE_PATHS},  \* first path that opens, 0: none
      open_err  : IsfsErrors,                 \* what a failing ISFS_Open returns
      stat_ret  : {0, -101},                  \* ISFS_GetFileStats
      alloc_ok  : BOOLEAN,                    \* memalign
      read      : {"full", "short", "error"}, \* ISFS_Read
      file      : SaveFiles ]

\* ---------------------------------------------------------------------------
\* State
\* ---------------------------------------------------------------------------

VARIABLES
    \* wiifit_reader.c
    initialized,      \* static int initialized
    save_buffer,      \* static u8* save_buffer: [null, size, bytes]
    save_size,        \* static u32 save_size
    last_tried_path,  \* index into SAVE_PATHS, 0 for NULL
    \* main.c
    save_data,        \* static WiiFitSaveData save_data
    last_call         \* the call that returned last: [fn, ret] and, for some
                      \* calls, what went in and what came out

reader_vars == <<initialized, save_buffer, save_size, last_tried_path>>

NullBuffer == [null |-> TRUE, size |-> 0, bytes |-> EmptyBytes]

\* ---------------------------------------------------------------------------
\* wiifit_reader.c : operations
\* ---------------------------------------------------------------------------

\* int wiifit_init(void); isfs_ok: ISFS_Initialize() >= 0
wiifit_init(isfs_ok) ==
    IF initialized # 0
    THEN /\ initialized' = initialized
         /\ last_call' = [fn |-> "wiifit_init", ret |-> WIIFIT_SUCCESS]
    ELSE IF ~isfs_ok
    THEN /\ initialized' = initialized
         /\ last_call' = [fn |-> "wiifit_init", ret |-> WIIFIT_ERR_INIT]
    ELSE /\ initialized' = 1
         /\ last_call' = [fn |-> "wiifit_init", ret |-> WIIFIT_SUCCESS]

\* ISFS_Open(SAVE_PATHS[i], ISFS_OPEN_READ) for the path of list position p
\* (1 for SAVE_PATHS[0]): a descriptor, here the position itself, when the
\* path is env.open_at or a later one, env.open_err otherwise.
ISFS_Open(env, p) ==
    IF env.open_at # 0 /\ p >= env.open_at THEN p ELSE env.open_err

\* A variant of the open loop below whose condition does not test fd.
RECURSIVE OpenLoop_keeps_going(_, _, _)
OpenLoop_keeps_going(env, i, st) ==
    IF ~(i < NUM_SAVE_PATHS) THEN st
    ELSE LET fd == ISFS_Open(env, i + 1)
         IN  OpenLoop_keeps_going(env, i + 1,
                 [fd |-> fd,
                  last_error |-> IF fd < 0 THEN fd ELSE st.last_error,
                  paths_tried |-> st.paths_tried + 1,
                  last_tried_path |-> i + 1,
                  opened |-> Append(st.opened, [path |-> i + 1, fd |-> fd])])

\* for (int i = ...; i < NUM_SAVE_PATHS && fd < 0; i++): st holds fd,
\* last_error, paths_tried and last_tried_path, and opened lists the
\* ISFS_Open calls made, each with what it returned.
RECURSIVE OpenLoop(_, _, _)
OpenLoop(env, i, st) ==
    IF ~(i < NUM_SAVE_PATHS /\ st.fd < 0) THEN st
    ELSE LET fd == ISFS_Open(env, i + 1)
         IN  OpenLoop(env, i + 1,
                 [fd |-> fd,
                  last_error |-> IF fd < 0 THEN fd ELSE st.last_error,
                  paths_tried |-> st.paths_tried + 1,
                  last_tried_path |-> i + 1,
                  opened |-> Append(st.opened, [path |-> i + 1, fd |-> fd])])

\* Fault: a path of wiifit_read_save returning without ISFS_Close.
ISFS_Close_forgotten(fd) == <<>>

\* ISFS_Close(fd), as an entry of the calls made (the descriptor stands in
\* the place of the return value)
ISFS_Close(fd) == << [call |-> "ISFS_Close", ret |-> fd] >>

\* A variant of the test below that lets a short read pass.
ReadFailed_ignores_short(ret, size) == ret < 0

\* if (ret < 0 || (u32)ret != save_size) after ISFS_Read
ReadFailed(ret, size) == ret < 0 \/ ret # size

\* The values wiifit_read_save(&save_data) leaves, meeting env:
\* [ret, save_data, save_buffer, save_size, last_tried_path], with the
\* ISFS_Open calls made (opened) and the descriptor handed to
\* ISFS_GetFileStats and ISFS_Read (fd, -1 when none was), and the calls made
\* after the opens, in order, each with what it returned (io; for
\* parse_profile the slot index stands in the place of the return value).
ReadSaveOutcome(env) ==
    LET sd0 == ZeroSaveData                           \* memset
        o == OpenLoop(env, 0, [fd |-> -1, last_error |-> 0, paths_tried |-> 0,
                               last_tried_path |-> last_tried_path, opened |-> <<>>])
        size == env.file.size                         \* stats.file_length
        read_ret == IF env.read = "full" THEN size
                    ELSE IF env.read = "short" THEN size - 1 ELSE -101
        profiles == ProfileLoop(env.file, size, 0,
                                [profiles |-> <<>>, target |-> ZeroProfile]).profiles
        stat == << [call |-> "ISFS_GetFileStats", ret |-> env.stat_ret] >>
        alloc == << [call |-> "memalign", ret |-> IF env.alloc_ok THEN 1 ELSE 0] >>
        read == << [call |-> "ISFS_Read", ret |-> read_ret] >>
        parse == [i \in 1..Min(MAX_PROFILES, size \div PROFILE_SIZE) |->
                    [call |-> "parse_profile", ret |-> i - 1]]
        Fail(code, msg, buf, sz, io) ==
            [ret |-> code,
             save_data |-> [sd0 EXCEPT !.error_msg = Snprintf(msg, ERROR_MSG_SIZE),
                                       !.error_code = code],
             save_buffer |-> buf, save_size |-> sz,
             last_tried_path |-> o.last_tried_path,
             opened |-> o.opened, fd |-> o.fd, io |-> io]
    IN  IF initialized = 0
        THEN [ret |-> WIIFIT_ERR_INIT,
              save_data |-> [save_data EXCEPT
                               !.error_msg = Snprintf(MSG_NotInitialized, ERROR_MSG_SIZE),
                               !.error_code = WIIFIT_ERR_INIT],
              save_buffer |-> save_buffer, save_size |-> save_size,
              last_tried_path |-> last_tried_path,
              opened |-> <<>>, fd |-> -1, io |-> <<>>]
        ELSE IF o.fd < 0
        THEN Fail(WIIFIT_ERR_NOT_FOUND,
                  MSG_SaveNotFound1 \o FmtD(o.last_error) \o MSG_SaveNotFound2
                    \o FmtD(o.paths_tried) \o MSG_SaveNotFound3
                    \o (IF o.last_tried_path # 0 THEN SAVE_PATHS[o.last_tried_path]
                        ELSE <<"n", "o", "n", "e">>),
                  save_buffer, save_size, <<>>)
        ELSE IF env.stat_ret < 0
        THEN Fail(WIIFIT_ERR_READ,
                  MSG_StatFailed \o FmtD(env.stat_ret) \o <<")">>,
                  save_buffer, save_size, stat \o ISFS_Close(o.fd))
        ELSE IF ~env.alloc_ok
        THEN Fail(WIIFIT_ERR_MEMORY,
                  MSG_AllocFailed1 \o FmtD(size) \o MSG_AllocFailed2,
                  NullBuffer, size, stat \o alloc \o ISFS_Close(o.fd))
        ELSE IF ReadFailed(read_ret, size)
        THEN Fail(WIIFIT_ERR_READ,
                  MSG_ReadFailed \o FmtD(read_ret) \o <<")">>,
                  [null |-> FALSE, size |-> size, bytes |-> EmptyBytes], size,
                  stat \o alloc \o read \o ISFS_Close(o.fd))
        ELSE IF Len(profiles) = 0
        THEN Fail(WIIFIT_ERR_PARSE, MSG_NoProfiles,
                  [null |-> FALSE, size |-> size, bytes |-> env.file.bytes], size,
                  stat \o alloc \o read \o ISFS_Close(o.fd) \o parse)
        ELSE [ret |-> WIIFIT_SUCCESS,
              save_data |-> [profiles |-> profiles, profile_count |-> Len(profiles),
                             error_code |-> WIIFIT_SUCCESS, error_msg |-> <<>>],
              save_buffer |-> [null |-> FALSE, size |-> size, bytes |-> env.file.bytes],
              save_size |-> size,
              last_tried_path |-> o.last_tried_path,
              opened |-> o.opened, fd |-> o.fd,
              io |-> stat \o alloc \o read \o ISFS_Close(o.fd) \o parse]

\* Fault: wiifit_read_save returning its code without storing it in
\* save_data->error_code.
wiifit_read_save_code_not_stored(env) ==
    LET out == ReadSaveOutcome(env)
    IN  /\ save_data' = [out.save_data EXCEPT !.error_code = 0]
        /\ save_buffer' = out.save_buffer
        /\ save_size' = out.save_size
        /\ last_tried_path' = out.last_tried_path
        /\ initialized' = initialized
        /\ last_call' = [fn |-> "wiifit_read_save", ret |-> out.ret,
                         opened |-> out.opened, fd |-> out.fd, io |-> out.io]

\* int wiifit_read_save(WiiFitSaveData* save_data)
wiifit_read_save(env) ==
    LET out == ReadSaveOutcome(env)
    IN  /\ save_data' = out.save_data
        /\ save_buffer' = out.save_buffer
        /\ save_size' = out.save_size
        /\ last_tried_path' = out.last_tried_path
        /\ initialized' = initialized
        /\ last_call' = [fn |-> "wiifit_read_save", ret |-> out.ret,
                         opened |-> out.opened, fd |-> out.fd, io |-> out.io]

\* Fault: a wiifit_cleanup that releases nothing.
wiifit_cleanup_releases_nothing ==
    /\ UNCHANGED <<save_buffer, save_size, initialized, last_tried_path>>
    /\ last_call' = [fn |-> "wiifit_cleanup", ret |-> 0]

\* void wiifit_cleanup(void)
wiifit_cleanup ==
    /\ save_buffer' = NullBuffer
    /\ save_size' = 0
    /\ initialized' = 0
    /\ last_tried_path' = last_tried_path
    /\ last_call' = [fn |-> "wiifit_cleanup", ret |-> 0]

\* ---------------------------------------------------------------------------
\* json_builder.c : the response encoder
\* ---------------------------------------------------------------------------

MAX_MESSAGE_SIZE == 65536
ESCAPED_NAME_SIZE == 64      \* char escaped_name[64]
ESCAPED_MSG_SIZE == 256      \* char escaped_msg[256]

\* {"version":2,"profiles":[
JSON_ResponseOpen ==
    <<"{","\"","v","e","r","s","i","o","n","\"",":","2",",","\"","p","r","o","f","i","l",
      "e","s","\"",":","[">>

\* {"name":"
JSON_Name ==
    <<"{","\"","n","a","m","e","\"",":","\"">>

\* ","height_cm":
JSON_Height ==
    <<"\"",",","\"","h","e","i","g","h","t","_","c","m","\"",":">>

\* ,"dob":"
JSON_Dob ==
    <<",","\"","d","o","b","\"",":","\"">>

\* ",
JSON_DobClose ==
    <<"\"",",">>

\* "measurements":[
JSON_Measurements ==
    <<"\"","m","e","a","s","u","r","e","m","e","n","t","s","\"",":","[">>

\* {"date":"
JSON_Date ==
    <<"{","\"","d","a","t","e","\"",":","\"">>

\* ","weight_kg":
JSON_Weight ==
    <<"\"",",","\"","w","e","i","g","h","t","_","k","g","\"",":">>

\* ,"bmi":
JSON_Bmi ==
    <<",","\"","b","m","i","\"",":">>

\* ,"balance_percent":
JSON_Balance ==
    <<",","\"","b","a","l","a","n","c","e","_","p","e","r","c","e","n","t","\"",":">>

\* ],
JSON_MeasurementsClose ==
    <<"]",",">>

\* "activities":[
JSON_Activities ==
    <<"\"","a","c","t","i","v","i","t","i","e","s","\"",":","[">>

\* ]}
JSON_ProfileClose ==
    <<"]","}">>

\* ]}
JSON_ResponseClose ==
    <<"]","}">>

\* ]}]}
JSON_OverflowClose ==
    <<"]","}","]","}">>

\* {"version":2,"error":{"code":
JSON_ErrorOpen ==
    <<"{","\"","v","e","r","s","i","o","n","\"",":","2",",","\"","e","r","r","o","r","\"",
      ":","{","\"","c","o","d","e","\"",":">>

\* ,"message":"
JSON_ErrorMessage ==
    <<",","\"","m","e","s","s","a","g","e","\"",":","\"">>

\* "}}
JSON_ErrorClose ==
    <<"\"","}","}">>

\* One turn of json_escape_string's loop on the byte c: dst afterwards.  A turn
\* taken when the loop condition j < dst_size - 1 is already false changes
\* nothing (the loop has ended).
EscapeStep(c, dst, dst_size) ==
    IF ~(Len(dst) < dst_size - 1) THEN dst
    ELSE IF c = "\"" THEN (IF Len(dst) < dst_size - 2 THEN dst \o <<"\\", "\"">> ELSE dst)
    ELSE IF c = "\\" THEN (IF Len(dst) < dst_size - 2 THEN dst \o <<"\\", "\\">> ELSE dst)
    ELSE IF c = "\n" THEN (IF Len(dst) < dst_size - 2 THEN dst \o <<"\\", "n">> ELSE dst)
    ELSE IF c = "\r" THEN (IF Len(dst) < dst_size - 2 THEN dst \o <<"\\", "r">> ELSE dst)
    ELSE IF c = "\t" THEN (IF Len(dst) < dst_size - 2 THEN dst \o <<"\\", "t">> ELSE dst)
    ELSE Append(dst, c)

\* The turns for src[a..b] in order: those of the first half, then those of
\* the second half on what the first half left in dst (each half's result is
\* bound as a value before the next half runs).
RECURSIVE EscapeLoop(_, _, _, _, _)
EscapeLoop(src, a, b, dst, dst_size) ==
    IF a > b THEN dst
    ELSE IF a = b THEN EscapeStep(src[a], dst, dst_size)
    ELSE LET mid == (a + b) \div 2
         IN  CHOOSE out \in { EscapeLoop(src, mid + 1, b, left, dst_size) :
                                left \in { EscapeLoop(src, a, mid, dst, dst_size) } } : TRUE

\* json_escape_string(src, dst, dst_size): the C string left in dst.
json_escape_string(src, dst_size) ==
    CHOOSE out \in { EscapeLoop(s, 1, Len(s), <<>>, dst_size) : s \in { CStr(src) } } : TRUE

\* format_timestamp: localtime + strftime("%Y-%m-%dT%H:%M:%S")
format_timestamp(ts) ==
    FmtD(ts.year) \o <<"-">> \o FmtPadD(ts.month, 2) \o <<"-">> \o FmtPadD(ts.day, 2)
      \o <<"T">> \o FmtPadD(ts.hour, 2) \o <<":">> \o FmtPadD(ts.min, 2)
      \o <<":">> \o FmtPadD(ts.sec, 2)

\* "%.<decimals>f" of raw / scale, scale = 10^decimals; printf writes an
\* infinity as inf or -inf and a not-a-number as nan.
FmtF(f, decimals) ==
    IF f.scale = 0
    THEN (IF f.raw > 0 THEN <<"i", "n", "f">>
          ELSE IF f.raw < 0 THEN <<"-", "i", "n", "f">>
          ELSE <<"n", "a", "n">>)
    ELSE Dec(f.raw \div f.scale) \o <<".">> \o FmtPadD(f.raw % f.scale, decimals)

\* "if (x != x || x < 0) x = dflt": x != x holds of a not-a-number only,
\* x < 0 of the negative numbers and of -infinity.
Sanitize(f, dflt) ==
    IF (f.scale = 0 /\ f.raw = 0) \/ f.raw < 0 THEN dflt ELSE f

\* The text of each SAFE_APPEND of json_build_response, in call order: for the
\* measurements from the m-th on, a "," before each but the first of the
\* array, then the object.
MeasurementPieces(ms, m) ==
    LET Object(i) ==
            JSON_Date \o format_timestamp(ms[i].timestamp)
              \o JSON_Weight \o FmtF(Sanitize(ms[i].weight_kg, Fixed(0, 10)), 1)
              \o JSON_Bmi \o FmtF(Sanitize(ms[i].bmi, Fixed(0, 100)), 2)
              \o JSON_Balance \o FmtF(Sanitize(ms[i].balance_pct, Fixed(500, 10)), 1)
              \o <<"}">>
        lead == IF m > 1 THEN 1 ELSE 0
    IN  IF m > Len(ms) THEN <<>>
        ELSE [k \in 1..(2 * (Len(ms) - m + 1) - 1 + lead) |->
                IF (k + lead) % 2 = 0 THEN <<",">>
                ELSE Object(m + (k + lead - 1) \div 2 - lead)]

RECURSIVE ProfilePieces(_, _)
ProfilePieces(sd, p) ==
    IF p > sd.profile_count THEN <<>>
    ELSE LET profile == sd.profiles[p]
         IN  (IF p > 1 THEN << <<",">> >> ELSE <<>>)
             \o << JSON_Name \o json_escape_string(profile.name, ESCAPED_NAME_SIZE)
                   \o JSON_Height \o FmtD(profile.height_cm)
                   \o JSON_Dob \o FmtPadD(profile.birth_year, 4) \o <<"-">>
                   \o FmtPadD(profile.birth_month, 2) \o <<"-">>
                   \o FmtPadD(profile.birth_day, 2) \o JSON_DobClose,
                   JSON_Measurements >>
             \o MeasurementPieces(SubSeq(profile.measurements, 1,
                                         profile.measurement_count), 1)
             \o << JSON_MeasurementsClose, JSON_Activities, JSON_ProfileClose >>
             \o ProfilePieces(sd, p + 1)

ResponsePieces(sd) ==
    << JSON_ResponseOpen >> \o ProfilePieces(sd, 1) \o << JSON_ResponseClose >>

\* A variant of the append below that writes a piece whole even when it
\* does not fit in the room left.
SafeAppend_writes_whole_piece(st, piece, buffer_size) ==
    LET written == Len(piece)
    IN  IF st.overflow THEN st
        ELSE IF st.offset >= buffer_size - 1 THEN [st EXCEPT !.overflow = TRUE]
        ELSE IF written >= buffer_size - st.offset
        THEN [overflow |-> TRUE, offset |-> st.offset,
              text |-> st.text \o piece,
              extent |-> st.offset + written + 1]
        ELSE [overflow |-> FALSE, offset |-> st.offset + written,
              text |-> st.text \o piece,
              extent |-> IF st.offset + written = 0 THEN 0 ELSE st.offset + written + 1]

\* One SAFE_APPEND of piece on st = [overflow, offset, text, extent], text
\* being the C string in the buffer and extent the number of leading buffer
\* bytes the appends have reached (each snprintf writes its text and a NUL);
\* overflow: the macro has jumped to the overflow label.  An append that
\* does not fit has already been written by snprintf, cut to the room left,
\* when the macro jumps.
SafeAppend(st, piece, buffer_size) ==
    LET written == Len(piece)
    IN  IF st.overflow THEN st
        ELSE IF st.offset >= buffer_size - 1 THEN [st EXCEPT !.overflow = TRUE]
        ELSE IF written >= buffer_size - st.offset
        THEN [overflow |-> TRUE, offset |-> st.offset,
              text |-> Take(st.text \o piece, buffer_size - 1),
              extent |-> buffer_size]
        ELSE [overflow |-> FALSE, offset |-> st.offset + written,
              text |-> st.text \o piece,
              extent |-> IF st.offset + written = 0 THEN 0 ELSE st.offset + written + 1]

\* The SAFE_APPENDs of pieces[a..b], in order, starting from st.
RECURSIVE SafeAppendAll(_, _, _, _, _)
SafeAppendAll(pieces, a, b, st, buffer_size) ==
    IF a > b \/ st.overflow THEN st
    ELSE IF a = b THEN SafeAppend(st, pieces[a], buffer_size)
    ELSE LET mid == (a + b) \div 2
         IN  CHOOSE out \in { SafeAppendAll(pieces, mid + 1, b, left, buffer_size) :
                                left \in { SafeAppendAll(pieces, a, mid, st, buffer_size) } } : TRUE

\* int json_build_response(save_data, buffer, buffer_size):
\* [ret, text, extent, overflow]
json_build_response(sd, buffer_size) ==
    LET Return(r) ==
            IF ~r.overflow
            THEN [ret |-> r.offset, text |-> r.text, extent |-> r.extent, overflow |-> FALSE]
            ELSE IF r.offset > 10 /\ buffer_size > r.offset + 20
            THEN [ret |-> Len(JSON_OverflowClose),
                  text |-> Take(r.text, r.offset) \o JSON_OverflowClose,
                  extent |-> IF r.extent > r.offset + Len(JSON_OverflowClose) + 1
                             THEN r.extent ELSE r.offset + Len(JSON_OverflowClose) + 1,
                  overflow |-> TRUE]
            ELSE [ret |-> r.offset, text |-> r.text, extent |-> r.extent, overflow |-> TRUE]
        start == [overflow |-> FALSE, offset |-> 0, text |-> <<>>, extent |-> 0]
    IN  CHOOSE out \in
            { Return(r) : r \in { SafeAppendAll(pieces, 1, Len(pieces), start, buffer_size) :
                                    pieces \in { ResponsePieces(sd) } } } : TRUE

\* int json_build_error(error_code, error_msg, buffer, buffer_size):
\* [ret, text, extent]
json_build_error(error_code, error_msg, buffer_size) ==
    LET full == JSON_ErrorOpen \o FmtD(error_code) \o JSON_ErrorMessage
                  \o json_escape_string(error_msg, ESCAPED_MSG_SIZE) \o JSON_ErrorClose
    IN  [ret |-> Len(full), text |-> Snprintf(full, buffer_size),
         extent |-> Min(Len(full) + 1, buffer_size)]

\* ---------------------------------------------------------------------------
\* network.h / network.c
\* ---------------------------------------------------------------------------

SEND_CHUNK_SIZE == 512
EAGAIN == 11                 \* errno.h; EWOULDBLOCK is the same value
NET_SUCCESS == 0
NET_ERR_INIT == -1
NET_ERR_SOCKET == -2
NET_ERR_BIND == -3
NET_ERR_LISTEN == -4
NET_ERR_ACCEPT == -5
NET_ERR_SEND == -6
NET_ERR_RECV == -7
NET_ERR_DISCONNECTED == -9

\* main.c
RECV_BUFFER_SIZE == 1024     \* static char recv_buffer[1024]
REQUEST_TIMEOUT_MS == 5000   \* handle_client: timeout_ms
ACK_TIMEOUT_MS == 2000       \* handle_client: while (waited_ms < 2000)
POLL_STEP_MS_doubled == 10 + 10   \* Fault: waited_ms += 20 for a 10 ms sleep
POLL_STEP_MS == 10           \* usleep(10000); waited_ms += 10

\* "action"
MARK_Action ==
    <<"\"","a","c","t","i","o","n","\"">>

\* "sync"
MARK_Sync ==
    <<"\"","s","y","n","c","\"">>

\* "ack"
MARK_Ack ==
    <<"\"","a","c","k","\"">>

\* {"action": "sync"}
REQ_Sync ==
    <<"{","\"","a","c","t","i","o","n","\"",":"," ","\"","s","y","n","c","\"","}">>

\* {"ping":1}
REQ_Ping ==
    <<"{","\"","p","i","n","g","\"",":","1","}">>

\* {"action":
REQ_SyncHead ==
    <<"{","\"","a","c","t","i","o","n","\"",":">>

\*  "sync"  }   (what follows REQ_SyncHead in a request sent in two pieces)
REQ_SyncTail ==
    <<" ","\"","s","y","n","c","\""," "," ","}">>

\* {"ack":10}
REPLY_Ack ==
    <<"{","\"","a","c","k","\"",":","1","0","}">>

VARIABLES
    \* network.c
    net_current_state,  \* static NetworkState current_state
    ip_string,          \* static char ip_string[32]
    server_socket,      \* static s32 server_socket
    client_socket,      \* static s32 client_socket
    \* the transport: the descriptors the network stack holds open
    open_socks          \* [listening: set of fds, connected: set of fds]

net_vars == <<net_current_state, ip_string, server_socket, client_socket,
              open_socks>>

AllSocks == open_socks.listening \cup open_socks.connected

\* The descriptor net_socket / net_accept hands out next.
NewFd == CHOOSE fd \in 0..Cardinality(AllSocks) : fd \notin AllSocks

\* net_close(fd)
NetClose(socks, fd) ==
    [listening |-> socks.listening \ {fd}, connected |-> socks.connected \ {fd}]

IP_Address == <<"1", "0", ".", "0", ".", "0", ".", "2">>

\* Errors of the transport other than would-block.
NetErrnos == {-104, -128}

\* int network_init(void); ret: what if_config returned.  [ret, ...new values]
network_init(ret) ==
    IF ret < 0
    THEN [ret |-> NET_ERR_INIT, net_current_state |-> "NET_STATE_ERROR",
          ip_string |-> ip_string]
    ELSE [ret |-> NET_SUCCESS, net_current_state |-> "NET_STATE_INIT", ip_string |-> IP_Address]

\* const char* network_get_ip(void): NULL is <<>>
network_get_ip == ip_string

\* int network_start_server(void); env: what net_socket, net_bind and
\* net_listen return (sock_ret >= 0 stands for "a descriptor").
network_start_server(env) ==
    LET fd == NewFd
        opened == [open_socks EXCEPT !.listening = @ \cup {fd}]
    IN  IF env.sock_ret < 0
        THEN [ret |-> NET_ERR_SOCKET, server_socket |-> env.sock_ret,
              open_socks |-> open_socks, net_current_state |-> "NET_STATE_ERROR"]
        ELSE IF env.bind_ret < 0
        THEN [ret |-> NET_ERR_BIND, server_socket |-> -1,
              open_socks |-> NetClose(opened, fd), net_current_state |-> "NET_STATE_ERROR"]
        ELSE IF env.listen_ret < 0
        THEN [ret |-> NET_ERR_LISTEN, server_socket |-> -1,
              open_socks |-> NetClose(opened, fd), net_current_state |-> "NET_STATE_ERROR"]
        ELSE [ret |-> NET_SUCCESS, server_socket |-> fd, open_socks |-> opened,
              net_current_state |-> "NET_STATE_WAITING"]

StartServerEnvs ==
    [sock_ret : {0} \cup NetErrnos, bind_ret : {0, -98}, listen_ret : {0, -98}]

\* int network_accept_client(void); acc: what net_accept returns (conn: a
\* new descriptor, else the negative errno ret).
AcceptOutcomes ==
    {[conn |-> TRUE, ret |-> 0]} \cup [conn : {FALSE}, ret : {0 - EAGAIN} \cup NetErrnos]

\* Fault: network_accept_client reporting a client when net_accept had none.
network_accept_client_counts_again(acc) ==
    IF server_socket < 0 \/ client_socket >= 0 \/ acc.conn
    THEN [ret |-> IF server_socket < 0 THEN NET_ERR_SOCKET ELSE 1,
          client_socket |-> IF server_socket >= 0 /\ client_socket < 0
                            THEN NewFd ELSE client_socket,
          open_socks |-> IF server_socket >= 0 /\ client_socket < 0
                         THEN [open_socks EXCEPT !.connected = @ \cup {NewFd}]
                         ELSE open_socks,
          net_current_state |-> IF server_socket >= 0 /\ client_socket < 0
                                THEN "NET_STATE_CONNECTED" ELSE net_current_state]
    ELSE [ret |-> 1, client_socket |-> acc.ret, open_socks |-> open_socks,
          net_current_state |-> "NET_STATE_CONNECTED"]

network_accept_client(acc) ==
    LET same == [client_socket |-> client_socket, open_socks |-> open_socks,
                 net_current_state |-> net_current_state]
    IN  IF server_socket < 0 THEN [ret |-> NET_ERR_SOCKET] @@ same
        ELSE IF client_socket >= 0 THEN [ret |-> 1] @@ same
        ELSE IF acc.conn
        THEN [ret |-> 1, client_socket |-> NewFd,
              open_socks |-> [open_socks EXCEPT !.connected = @ \cup {NewFd}],
              net_current_state |-> "NET_STATE_CONNECTED"]
        ELSE IF acc.ret = 0 - EAGAIN
        THEN [ret |-> 0, client_socket |-> acc.ret, open_socks |-> open_socks,
              net_current_state |-> net_current_state]
        ELSE [ret |-> NET_ERR_ACCEPT, client_socket |-> acc.ret, open_socks |-> open_socks,
              net_current_state |-> net_current_state]

\* A NUL byte, then {"action":"sync"}
REQ_NulSync ==
    <<NUL>> \o <<"{","\"","a","c","t","i","o","n","\"",":","\"","s","y","n","c","\"","}">>

\* What one net_recv on the connection can give: bytes, 0 (peer closed),
\* would-block, or another error.
Payloads ==
    { REQ_Sync, REQ_Ping, REQ_SyncHead, REQ_SyncTail, REQ_NulSync, REPLY_Ack }

RecvOutcomes ==
    [kind : {"data"}, data : Payloads, ret : {0}]
      \cup [kind : {"closed"}, data : {<<>>}, ret : {0}]
      \cup [kind : {"again"}, data : {<<>>}, ret : {0 - EAGAIN}]
      \cup [kind : {"error"}, data : {<<>>}, ret : NetErrnos]

\* buffer after net_recv stored data at its start
Store(buffer, data) == data \o SubSeq(buffer, Len(data) + 1, Len(buffer))

\* Fault: network_receive reporting a closed peer as "no data yet".
network_receive_zero_on_close(buffer, max_len, r) ==
    IF client_socket < 0 \/ r.kind = "error"
    THEN [ret |-> IF client_socket < 0 THEN NET_ERR_DISCONNECTED ELSE NET_ERR_RECV,
          buffer |-> buffer, net_current_state |-> net_current_state]
    ELSE [ret |-> Len(Take(r.data, max_len)), buffer |-> Store(buffer, Take(r.data, max_len)),
          net_current_state |-> "NET_STATE_CONNECTED"]

\* int network_receive(char* buffer, int max_len): [ret, buffer, ...]
network_receive(buffer, max_len, r) ==
    LET got == Take(r.data, max_len)
    IN  IF client_socket < 0
        THEN [ret |-> NET_ERR_DISCONNECTED, buffer |-> buffer,
              net_current_state |-> net_current_state]
        ELSE IF r.kind = "data"
        THEN [ret |-> Len(got), buffer |-> Store(buffer, got),
              net_current_state |-> "NET_STATE_CONNECTED"]
        ELSE IF r.kind = "closed"
        THEN [ret |-> NET_ERR_DISCONNECTED, buffer |-> buffer,
              net_current_state |-> "NET_STATE_RECEIVING"]
        ELSE IF r.ret = 0 - EAGAIN
        THEN [ret |-> 0, buffer |-> buffer,
              net_current_state |-> "NET_STATE_CONNECTED"]
        ELSE [ret |-> NET_ERR_RECV, buffer |-> buffer,
              net_current_state |-> "NET_STATE_RECEIVING"]

\* Fault: network_close_client closing the descriptor but keeping it in
\* client_socket.
network_close_client_keeps_fd(cs, socks) ==
    [client_socket |-> cs,
     open_socks |-> IF cs >= 0 THEN NetClose(socks, cs) ELSE socks,
     net_current_state |-> "NET_STATE_WAITING"]

\* Fault: network_close_client closing the listening socket as well.
network_close_client_closes_server(cs, socks) ==
    [client_socket |-> IF cs >= 0 THEN -1 ELSE cs,
     open_socks |-> [listening |-> {}, connected |-> socks.connected \ {cs}],
     net_current_state |-> "NET_STATE_WAITING"]

\* Fault: network_close_client leaving current_state as it was.
network_close_client_keeps_state(cs, socks) ==
    [client_socket |-> IF cs >= 0 THEN -1 ELSE cs,
     open_socks |-> IF cs >= 0 THEN NetClose(socks, cs) ELSE socks,
     net_current_state |-> net_current_state]

\* Fault: network_close_client forgetting net_close (the descriptor leaks).
network_close_client_leaks(cs, socks) ==
    [client_socket |-> IF cs >= 0 THEN -1 ELSE cs,
     open_socks |-> socks,
     net_current_state |-> "NET_STATE_WAITING"]

\* void network_close_client(void): [client_socket, open_socks, net_current_state]
network_close_client(cs, socks) ==
    IF cs >= 0
    THEN [client_socket |-> -1, open_socks |-> NetClose(socks, cs),
          net_current_state |-> "NET_STATE_WAITING"]
    ELSE [client_socket |-> cs, open_socks |-> socks,
          net_current_state |-> "NET_STATE_WAITING"]

\* Fault: network_shutdown leaving the listening socket open.
network_shutdown_keeps_server ==
    LET c == network_close_client(client_socket, open_socks)
    IN  [client_socket |-> c.client_socket,
         server_socket |-> server_socket,
         open_socks |-> c.open_socks,
         net_current_state |-> "NET_STATE_INIT"]

\* void network_shutdown(void)
network_shutdown ==
    LET c == network_close_client(client_socket, open_socks)
    IN  [client_socket |-> c.client_socket,
         server_socket |-> IF server_socket >= 0 THEN -1 ELSE server_socket,
         open_socks |-> IF server_socket >= 0 THEN NetClose(c.open_socks, server_socket)
                        ELSE c.open_socks,
         net_current_state |-> "NET_STATE_INIT"]

\* ---------------------------------------------------------------------------
\* main.c : application state, the sync session (handle_client)
\* ---------------------------------------------------------------------------

VARIABLES
    current_state,     \* static AppState current_state
    pc,                \* where main() is
    wpad_initialized,  \* WPAD_Init() has run: button presses can be seen
    recv_buffer,       \* static char recv_buffer[1024], up to its last written byte
    json_buffer,       \* static char json_buffer[MAX_MESSAGE_SIZE], as a C string
    \* handle_client's locals
    recv_len,
    waited_ms,
    json_len,
    send_ret,          \* int ret = network_send(...)
    total_sent,        \* network_send's total_sent
    \* what the running session has done so far (observation only)
    hist

app_vars == <<current_state, pc, wpad_initialized, recv_buffer, json_buffer,
              recv_len, waited_ms, json_len, send_ret, total_sent, hist>>

vars == <<initialized, save_buffer, save_size, last_tried_path, save_data, last_call,
          net_current_state, ip_string, server_socket, client_socket,
          open_socks, current_state, pc, wpad_initialized, recv_buffer, json_buffer,
          recv_len, waited_ms, json_len, send_ret, total_sent, hist>>

NoHist ==
    [request   |-> <<>>,     \* the bytes the request receive returned
     encoder   |-> "none",   \* the encoder that built the response
     payload   |-> <<>>,     \* the bytes handed to network_send
     sends     |-> 0,        \* calls of network_send
     sent      |-> <<>>,     \* the bytes the transport accepted
     offered   |-> [from |-> 0, len |-> 0],  \* network_send's last net_send: data + from, len
     turn      |-> 0,        \* network_send's net_send calls so far, modulo 2
     ack_polled |-> FALSE,   \* network_receive was called awaiting the acknowledgement
     exit      |-> "none"]   \* the way handle_client left

Buttons == {"A", "B", "HOME"}

\* WPAD_ButtonsDown(0): nothing is ever reported before WPAD_Init.
Pressed == IF wpad_initialized THEN SUBSET Buttons ELSE {{}}

\* The session phase of the protocol a position of handle_client stands for.
Phase ==
    CASE pc = "hc:wait_request" -> "AWAITING_REQUEST"
      [] pc \in {"hc:request", "hc:send"} -> "SERVING"
      [] pc = "hc:wait_ack" -> "AWAITING_ACK"
      [] pc = "hc:return" -> "CLOSED"
      [] OTHER -> "NONE"

\* buffer[at] = '\0' (at counted from 0)
SetNul(buffer, at) ==
    IF at < Len(buffer) THEN [buffer EXCEPT ![at + 1] = NUL]
    ELSE buffer \o [i \in 1..(at - Len(buffer)) |-> NUL] \o <<NUL>>

\* strstr(recv_buffer, "\"action\"") && strstr(recv_buffer, "\"sync\"")
IsSyncRequest(buffer) == StrStr(buffer, MARK_Action) /\ StrStr(buffer, MARK_Sync)

\* strstr(recv_buffer, "\"ack\"")
IsAck(buffer) == StrStr(buffer, MARK_Ack)

\* Fault: the encoder choice ignoring error_code.
UseResponseEncoder_ignores_code(sd) == sd.profile_count >= 0

\* save_data.error_code == 0 && save_data.profile_count > 0
UseResponseEncoder(sd) == sd.error_code = 0 /\ sd.profile_count > 0

\* json_len <= 0 || json_len > (int)sizeof(json_buffer)
BadLength(len) == len <= 0 \/ len > MAX_MESSAGE_SIZE

\* Fault: the timeout check testing recv_len < 0.
RequestTimedOut_strict(len) == len < 0

\* if (recv_len <= 0): the request wait ended without data
RequestTimedOut(len) == len <= 0

\* The first len bytes of a zero-filled buffer holding the C string text.
BufferBytes(text, len) ==
    IF len <= Len(text) THEN SubSeq(text, 1, len)
    ELSE text \o [i \in 1..(len - Len(text)) |-> NUL]

\* network_close_client() and return from handle_client; h: the session's record
CloseAndReturn(h) ==
    LET c == network_close_client(client_socket, open_socks)
    IN  /\ client_socket' = c.client_socket
        /\ open_socks' = c.open_socks
        /\ net_current_state' = c.net_current_state
        /\ hist' = h
        /\ pc' = "hc:return"

\* case STATE_SYNCING: handle_client() is entered
HcEnter ==
    /\ pc = "main:loop" /\ current_state = "STATE_SYNCING"
    /\ pc' = "hc:wait_request"
    /\ recv_len' = 0 /\ waited_ms' = 0
    /\ hist' = NoHist
    /\ UNCHANGED <<reader_vars, save_data, last_call, net_vars, current_state,
                   wpad_initialized, recv_buffer, json_buffer, json_len, send_ret,
                   total_sent>>

\* One turn of "while (waited_ms < timeout_ms)"
HcRequestPoll(r) ==
    /\ pc = "hc:wait_request" /\ waited_ms < REQUEST_TIMEOUT_MS
    /\ LET got == network_receive(recv_buffer, RECV_BUFFER_SIZE - 1, r)
           h == hist
       IN  /\ recv_len' = got.ret
           /\ recv_buffer' = got.buffer
           /\ IF got.ret > 0
              THEN /\ pc' = "hc:request"
                   /\ hist' = [h EXCEPT !.request = SubSeq(got.buffer, 1, got.ret)]
                   /\ net_current_state' = got.net_current_state
                   /\ UNCHANGED <<waited_ms, client_socket, open_socks>>
              ELSE IF got.ret = NET_ERR_DISCONNECTED
              THEN /\ CloseAndReturn([h EXCEPT !.exit = "disconnected"])
                   /\ UNCHANGED waited_ms
              ELSE IF got.ret < 0 /\ got.ret # NET_ERR_DISCONNECTED
              THEN /\ CloseAndReturn([h EXCEPT !.exit = "recv_error"])
                   /\ UNCHANGED waited_ms
              ELSE /\ waited_ms' = waited_ms + POLL_STEP_MS
                   /\ pc' = IF waited_ms + POLL_STEP_MS < REQUEST_TIMEOUT_MS
                            THEN "hc:wait_request" ELSE "hc:request"
                   /\ hist' = h
                   /\ net_current_state' = got.net_current_state
                   /\ UNCHANGED <<client_socket, open_socks>>
    /\ UNCHANGED <<reader_vars, save_data, last_call, ip_string, server_socket,
                   current_state, wpad_initialized, json_buffer, json_len, send_ret,
                   total_sent>>

\* After the request wait: the timeout check, the sync test, the encoder, the
\* length check and the entry of network_send.
HcHandleRequest ==
    /\ pc = "hc:request"
    /\ IF RequestTimedOut(recv_len)
       THEN /\ CloseAndReturn([hist EXCEPT !.exit = "timeout"])
            /\ UNCHANGED <<recv_buffer, json_buffer, json_len, total_sent, send_ret, waited_ms>>
       ELSE LET buffer == SetNul(recv_buffer, recv_len)
                which == IF UseResponseEncoder(save_data)
                         THEN "json_build_response" ELSE "json_build_error"
                built == CHOOSE b \in
                           { IF UseResponseEncoder(save_data)
                             THEN json_build_response(save_data, MAX_MESSAGE_SIZE)
                             ELSE json_build_error(save_data.error_code,
                                                   save_data.error_msg, MAX_MESSAGE_SIZE) } : TRUE
                h == [hist EXCEPT !.encoder = which]
            IN  /\ recv_buffer' = buffer
                /\ IF ~IsSyncRequest(buffer)
                   THEN /\ CloseAndReturn([hist EXCEPT !.exit = "unknown_request"])
                        /\ UNCHANGED <<json_buffer, json_len, total_sent, send_ret, waited_ms>>
                   ELSE /\ json_buffer' = built.text
                        /\ json_len' = built.ret
                        /\ IF BadLength(built.ret)
                           THEN /\ CloseAndReturn([h EXCEPT !.exit = "bad_length"])
                                /\ UNCHANGED <<total_sent, send_ret, waited_ms>>
                           ELSE \* network_send(json_buffer, json_len) is entered
                                /\ hist' = [h EXCEPT
                                      !.payload = BufferBytes(built.text, built.ret),
                                      !.sends = @ + 1]
                                /\ total_sent' = 0
                                /\ IF client_socket < 0
                                   THEN /\ send_ret' = NET_ERR_DISCONNECTED
                                        /\ waited_ms' = 0
                                        /\ pc' = "hc:wait_ack"
                                        /\ UNCHANGED net_current_state
                                   ELSE /\ net_current_state' = "NET_STATE_SENDING"
                                        /\ pc' = "hc:send"
                                        /\ UNCHANGED <<send_ret, waited_ms>>
                                /\ UNCHANGED <<client_socket, open_socks>>
    /\ UNCHANGED <<reader_vars, save_data, last_call, ip_string,
                   server_socket, current_state, wpad_initialized, recv_len>>

\* What one net_send of to_send bytes returns: the count accepted, would-block
\* or another error.
SendOutcomes(to_send) ==
    {0, to_send, 0 - EAGAIN} \cup {to_send - 1 : x \in {1} \cap 1..(to_send - 1)}
      \cup NetErrnos

\* Fault: network_send offering all that is left in one net_send.
ToSend_unbounded(len, sent) == len - sent

\* int to_send = len - total_sent; if (to_send > SEND_CHUNK_SIZE) to_send = SEND_CHUNK_SIZE;
ToSend(len, sent) == IF len - sent > SEND_CHUNK_SIZE THEN SEND_CHUNK_SIZE ELSE len - sent

\* One turn of network_send's "while (total_sent < len)", and its return
\* (its locals to_send and the count of its turns go with it).
NetSendStep(ret) ==
    /\ pc = "hc:send" /\ total_sent < json_len
    /\ LET called == [hist EXCEPT
                        !.offered = [from |-> total_sent,
                                     len |-> ToSend(json_len, total_sent)],
                        !.turn = 1 - @]
           gone == [from |-> 0, len |-> 0]
       IN  IF ret < 0
           THEN IF ret = 0 - EAGAIN
                THEN /\ hist' = called
                     /\ UNCHANGED <<pc, total_sent, send_ret, waited_ms,
                                    net_current_state>>
                ELSE /\ net_current_state' = "NET_STATE_ERROR"
                     /\ send_ret' = NET_ERR_SEND
                     /\ waited_ms' = 0
                     /\ pc' = "hc:wait_ack"
                     /\ hist' = [called EXCEPT !.offered = gone, !.turn = 0]
                     /\ UNCHANGED total_sent
           ELSE /\ total_sent' = total_sent + ret
                /\ IF total_sent + ret < json_len
                   THEN /\ hist' = [called EXCEPT !.sent =
                              @ \o SubSeq(hist.payload, total_sent + 1, total_sent + ret)]
                        /\ UNCHANGED <<pc, send_ret, waited_ms, net_current_state>>
                   ELSE /\ hist' = [called EXCEPT
                              !.sent = @ \o SubSeq(hist.payload, total_sent + 1,
                                                   total_sent + ret),
                              !.offered = gone, !.turn = 0]
                        /\ net_current_state' = "NET_STATE_CONNECTED"
                        /\ send_ret' = total_sent + ret
                        /\ waited_ms' = 0
                        /\ pc' = "hc:wait_ack"
    /\ UNCHANGED <<reader_vars, save_data, last_call, ip_string, server_socket,
                   client_socket, open_socks, current_state, wpad_initialized,
                   recv_buffer, json_buffer, recv_len, json_len>>

\* One turn of "while (waited_ms < 2000)", and the close that follows the loop
HcAckPoll(r) ==
    /\ pc = "hc:wait_ack" /\ waited_ms < ACK_TIMEOUT_MS
    /\ LET got == network_receive(recv_buffer, RECV_BUFFER_SIZE - 1, r)
           h == [hist EXCEPT !.ack_polled = TRUE]
       IN  /\ recv_len' = got.ret
           /\ IF got.ret > 0
              THEN /\ recv_buffer' = SetNul(got.buffer, got.ret)
                   /\ CloseAndReturn([h EXCEPT !.exit =
                        IF IsAck(SetNul(got.buffer, got.ret)) THEN "ack" ELSE "no_ack"])
                   /\ UNCHANGED waited_ms
              ELSE /\ recv_buffer' = got.buffer
                   /\ waited_ms' = waited_ms + POLL_STEP_MS
                   /\ IF waited_ms + POLL_STEP_MS < ACK_TIMEOUT_MS
                      THEN /\ pc' = pc
                           /\ hist' = h
                           /\ net_current_state' = got.net_current_state
                           /\ UNCHANGED <<client_socket, open_socks>>
                      ELSE CloseAndReturn([h EXCEPT !.exit = "no_ack"])
    /\ UNCHANGED <<reader_vars, save_data, last_call, ip_string, server_socket,
                   current_state, wpad_initialized, json_buffer, json_len, send_ret,
                   total_sent>>

\* handle_client() has returned: current_state = STATE_WAITING.  The locals
\* of handle_client and network_send are gone.
HcReturn ==
    /\ pc = "hc:return"
    /\ current_state' = "STATE_WAITING"
    /\ pc' = "main:loop"
    /\ recv_len' = 0 /\ waited_ms' = 0 /\ json_len' = 0 /\ send_ret' = 0
    /\ total_sent' = 0
    /\ hist' = NoHist
    /\ UNCHANGED <<reader_vars, save_data, last_call, net_vars, wpad_initialized,
                   recv_buffer, json_buffer>>

\* ---------------------------------------------------------------------------
\* main.c : init_systems and the main loop
\* ---------------------------------------------------------------------------

\* What the start-up decode can meet (a subset of ReadEnvs).
InitReadEnvs ==
    { e \in ReadEnvs : /\ e.open_at \in {0, 1}
                       /\ e.open_err = -106
                       /\ e.stat_ret = 0
                       /\ e.alloc_ok
                       /\ e.read \in {"full", "error"}
                       /\ e.file.size = PROFILE_SIZE }

\* init_systems, phase 1: ret = wiifit_init(); if (ret < 0) return ret;
InitWiifitInit(isfs_ok) ==
    /\ pc = "init_systems:wiifit_init"
    /\ wiifit_init(isfs_ok)
    /\ IF last_call'.ret < 0
       THEN /\ current_state' = "STATE_ERROR"
            /\ pc' = "main:loop"
       ELSE /\ pc' = "init_systems:wiifit_read_save"
            /\ UNCHANGED current_state
    /\ UNCHANGED <<save_buffer, save_size, last_tried_path, save_data, net_vars,
                   wpad_initialized, recv_buffer, json_buffer, recv_len, waited_ms,
                   json_len, send_ret, total_sent, hist>>

\* ret = wiifit_read_save(&save_data);
InitReadSave(env) ==
    /\ pc = "init_systems:wiifit_read_save"
    /\ wiifit_read_save(env)
    /\ pc' = "init_systems:wiifit_cleanup"
    /\ UNCHANGED <<net_vars, current_state, wpad_initialized, recv_buffer, json_buffer,
                   recv_len, waited_ms, json_len, send_ret, total_sent, hist>>

\* wiifit_cleanup();  (before the IOS reload)
InitCleanup ==
    /\ pc = "init_systems:wiifit_cleanup"
    /\ wiifit_cleanup
    /\ pc' = "init_systems:network_init"
    /\ UNCHANGED <<save_data, net_vars, current_state, wpad_initialized, recv_buffer,
                   json_buffer, recv_len, waited_ms, json_len, send_ret, total_sent,
                   hist>>

\* phases 2 and 3: the IOS reload, WPAD_Init(), network_init(); then main()
\* sets current_state = STATE_MENU.  ifc_ret: what if_config returned.
InitNetwork(ifc_ret) ==
    /\ pc = "init_systems:network_init"
    /\ wpad_initialized' = TRUE
    /\ LET n == network_init(ifc_ret)
       IN  /\ net_current_state' = n.net_current_state
           /\ ip_string' = n.ip_string
    /\ current_state' = "STATE_MENU"
    /\ pc' = "main:loop"
    /\ UNCHANGED <<reader_vars, save_data, last_call, server_socket, client_socket,
                   open_socks, recv_buffer, json_buffer, recv_len, waited_ms, json_len,
                   send_ret, total_sent, hist>>

\* case STATE_MENU: one turn of the button loop
MenuPoll(pressed, env) ==
    /\ pc = "main:loop" /\ current_state = "STATE_MENU"
    /\ IF "A" \in pressed
       THEN LET s == network_start_server(env)
            IN  /\ server_socket' = s.server_socket
                /\ open_socks' = s.open_socks
                /\ net_current_state' = s.net_current_state
                /\ current_state' = IF s.ret = 0 THEN "STATE_WAITING" ELSE current_state
       ELSE /\ current_state' = IF "HOME" \in pressed THEN "STATE_EXIT" ELSE current_state
            /\ UNCHANGED <<server_socket, open_socks, net_current_state>>
    /\ UNCHANGED <<reader_vars, save_data, last_call, ip_string, client_socket, pc,
                   wpad_initialized, recv_buffer, json_buffer, recv_len, waited_ms,
                   json_len, send_ret, total_sent, hist>>

\* case STATE_WAITING: one turn of the connection poll loop
WaitingPoll(pressed, acc) ==
    /\ pc = "main:loop" /\ current_state = "STATE_WAITING"
    /\ IF "B" \in pressed
       THEN LET s == network_shutdown
            IN  /\ client_socket' = s.client_socket
                /\ server_socket' = s.server_socket
                /\ open_socks' = s.open_socks
                /\ net_current_state' = s.net_current_state
                /\ current_state' = "STATE_MENU"
       ELSE IF "HOME" \in pressed
       THEN /\ current_state' = "STATE_EXIT"
            /\ UNCHANGED <<client_socket, server_socket, open_socks, net_current_state>>
       ELSE LET a == network_accept_client(acc)
            IN  /\ client_socket' = a.client_socket
                /\ open_socks' = a.open_socks
                /\ net_current_state' = a.net_current_state
                /\ current_state' = IF a.ret > 0 THEN "STATE_SYNCING" ELSE current_state
                /\ UNCHANGED server_socket
    /\ UNCHANGED <<reader_vars, save_data, last_call, ip_string, pc, wpad_initialized,
                   recv_buffer, json_buffer, recv_len, waited_ms, json_len, send_ret,
                   total_sent, hist>>

\* case STATE_ERROR: wait for HOME
ErrorPoll(pressed) ==
    /\ pc = "main:loop" /\ current_state = "STATE_ERROR"
    /\ current_state' = IF "HOME" \in pressed THEN "STATE_EXIT" ELSE current_state
    /\ UNCHANGED <<reader_vars, save_data, last_call, net_vars, pc, wpad_initialized,
                   recv_buffer, json_buffer, recv_len, waited_ms, json_len, send_ret,
                   total_sent, hist>>

\* The main loop ends: network_shutdown(); wiifit_cleanup(); WPAD_Shutdown();
MainExit ==
    /\ pc = "main:loop" /\ current_state = "STATE_EXIT"
    /\ LET s == network_shutdown
       IN  /\ client_socket' = s.client_socket
           /\ server_socket' = s.server_socket
           /\ open_socks' = s.open_socks
           /\ net_current_state' = s.net_current_state
    /\ wiifit_cleanup
    /\ wpad_initialized' = FALSE
    /\ pc' = "done"
    /\ UNCHANGED <<save_data, ip_string, current_state, recv_buffer,
                   json_buffer, recv_len, waited_ms, json_len, send_ret, total_sent,
                   hist>>

\* ---------------------------------------------------------------------------
\* The application: main() from start to exit
\* ---------------------------------------------------------------------------

Init ==
    /\ initialized = 0
    /\ save_buffer = NullBuffer
    /\ save_size = 0
    /\ last_tried_path = 0
    /\ save_data = ZeroSaveData
    /\ last_call = [fn |-> "none", ret |-> 0]
    /\ net_current_state = "NET_STATE_INIT"
    /\ ip_string = <<>>
    /\ server_socket = -1
    /\ client_socket = -1
    /\ open_socks = [listening |-> {}, connected |-> {}]
    /\ current_state = "STATE_INIT"
    /\ pc = "init_systems:wiifit_init"
    /\ wpad_initialized = FALSE
    /\ recv_buffer = <<>>
    /\ json_buffer = <<>>
    /\ recv_len = 0 /\ waited_ms = 0 /\ json_len = 0 /\ send_ret = 0 /\ total_sent = 0
    /\ hist = NoHist

Next ==
    \/ \E isfs_ok \in BOOLEAN : InitWiifitInit(isfs_ok)
    \/ \E env \in InitReadEnvs : InitReadSave(env)
    \/ InitCleanup
    \/ \E ifc_ret \in {0, -1} : InitNetwork(ifc_ret)
    \/ \E pressed \in Pressed, env \in StartServerEnvs : MenuPoll(pressed, env)
    \/ \E pressed \in Pressed, acc \in AcceptOutcomes : WaitingPoll(pressed, acc)
    \/ HcEnter
    \/ \E r \in RecvOutcomes : HcRequestPoll(r)
    \/ HcHandleRequest
    \/ \E ret \in SendOutcomes(ToSend(json_len, total_sent)) : NetSendStep(ret)
    \/ \E r \in RecvOutcomes : HcAckPoll(r)
    \/ HcReturn
    \/ \E pressed \in Pressed : ErrorPoll(pressed)
    \/ MainExit

Spec == Init /\ [][Next]_vars

\* ---------------------------------------------------------------------------
\* The storage reader on its own: any sequence of wiifit_init,
\* wiifit_read_save and wiifit_cleanup calls on the one save_data
\* ---------------------------------------------------------------------------

ReaderCallInit(isfs_ok) ==
    /\ wiifit_init(isfs_ok)
    /\ UNCHANGED <<save_buffer, save_size, last_tried_path, save_data, net_vars, app_vars>>

ReaderCallReadSave(env) ==
    /\ wiifit_read_save(env)
    /\ UNCHANGED <<net_vars, app_vars>>

ReaderCallCleanup ==
    /\ wiifit_cleanup
    /\ UNCHANGED <<save_data, net_vars, app_vars>>

ReaderNext ==
    \/ \E isfs_ok \in BOOLEAN : ReaderCallInit(isfs_ok)
    \/ \E env \in ReadEnvs : ReaderCallReadSave(env)
    \/ ReaderCallCleanup

ReaderSpec == Init /\ [][ReaderNext]_vars

\* ---------------------------------------------------------------------------
\* Properties
\* ---------------------------------------------------------------------------

\* The positions of main() inside handle_client.
HcPcs == {"hc:wait_request", "hc:request", "hc:send", "hc:wait_ack", "hc:return"}

\* C1: when handle_client returns, on whichever exit path, the client socket
\* has been closed (no connected descriptor is open) and client_socket is -1.
C1_ClientReleasedOnReturn ==
    pc = "hc:return" =>
        /\ client_socket = -1
        /\ open_socks.connected = {}
        /\ hist.exit \in {"disconnected", "recv_error", "timeout", "unknown_request",
                          "bad_length", "ack", "no_ack"}

\* A session that sent its response and left after the acknowledgement wait.
C1_Witness ==
    /\ pc = "hc:return" /\ hist.exit = "no_ack" /\ hist.sends = 1
    /\ client_socket = -1 /\ open_socks.connected = {}

\* C2: no step of a session (network_close_client included) changes
\* server_socket or closes the listening descriptor; it is still open and
\* listening at every position of handle_client.
C2_ServerSocketKept ==
    [][(pc \in HcPcs) =>
         (/\ server_socket' = server_socket
          /\ open_socks'.listening = open_socks.listening
          /\ server_socket >= 0
          /\ server_socket \in open_socks'.listening)]_vars

\* A session ended by a receive error, the listening socket still open.
C2_Witness ==
    /\ pc = "hc:return" /\ hist.exit = "recv_error"
    /\ server_socket >= 0 /\ server_socket \in open_socks.listening

\* C3 (as stated): a session that received a request called network_send
\* exactly when the received bytes contain both the "action" marker and the
\* "sync" marker.
C3_SendsIffMarkers ==
    (pc = "hc:return" /\ hist.request # <<>>) =>
        (hist.sends > 0 <=> (Contains(hist.request, MARK_Action)
                               /\ Contains(hist.request, MARK_Sync)))

\* C4: a session whose request wait ran to the timeout with no data is closed
\* without an encoder having run, without network_send and without an
\* acknowledgement wait.
C4_TimeoutServesNothing ==
    /\ (pc = "hc:request" /\ recv_len <= 0) =>
          (waited_ms = REQUEST_TIMEOUT_MS /\ hist.request = <<>>)
    /\ (pc = "hc:return" /\ hist.request = <<>>
          /\ hist.exit \notin {"disconnected", "recv_error"}) =>
          /\ hist.exit = "timeout"
          /\ waited_ms = REQUEST_TIMEOUT_MS
          /\ hist.encoder = "none" /\ hist.sends = 0 /\ hist.payload = <<>>
          /\ ~hist.ack_polled

\* A session closed by the request timeout.
C4_Witness ==
    /\ pc = "hc:return" /\ hist.exit = "timeout" /\ waited_ms = REQUEST_TIMEOUT_MS
    /\ hist.encoder = "none" /\ hist.sends = 0

\* C5 (as stated): once network_send has failed with a fatal send error the
\* session is not in the acknowledgement wait and has made no receive poll
\* for an acknowledgement.
C5_SendErrorClosesDirectly ==
    send_ret = NET_ERR_SEND => (pc # "hc:wait_ack" /\ ~hist.ack_polled)

\* {"version":2,"error":{"code":-4,"message":"No profiles found in save file"}}
C6_ParseErrorPayload ==
    <<"{","\"","v","e","r","s","i","o","n","\"",":","2",",","\"","e","r","r","o","r","\"",
      ":","{","\"","c","o","d","e","\"",":","-","4",",","\"","m","e","s","s","a","g","e",
      "\"",":","\"","N","o"," ","p","r","o","f","i","l","e","s"," ","f","o","u","n","d",
      " ","i","n"," ","s","a","v","e"," ","f","i","l","e","\"","}","}">>

\* C6: with a non-zero error_code held, a sync request is answered: the
\* payload handed to network_send is the error shape carrying that code and
\* that message, built by json_build_error; json_build_response is used
\* only when error_code = 0 and profile_count > 0.
C6_ErrorIsServed ==
    hist.sends > 0 =>
        /\ hist.sends = 1
        /\ json_len = Len(hist.payload)
        /\ save_data.error_code # 0 =>
              /\ hist.encoder = "json_build_error"
              /\ hist.payload = JSON_ErrorOpen \o FmtD(save_data.error_code)
                                  \o JSON_ErrorMessage \o save_data.error_msg
                                  \o JSON_ErrorClose
        /\ save_data.error_code = WIIFIT_ERR_PARSE => hist.payload = C6_ParseErrorPayload
        /\ hist.encoder = "json_build_response" =>
              (save_data.error_code = 0 /\ save_data.profile_count > 0)

\* The parse-error payload was sent whole and acknowledged.
C6_Witness ==
    /\ pc = "hc:return" /\ hist.exit = "ack"
    /\ save_data.error_code = WIIFIT_ERR_PARSE
    /\ hist.encoder = "json_build_error"
    /\ hist.sent = C6_ParseErrorPayload

\* C7: network_init is reached only after wiifit_init, wiifit_read_save and
\* wiifit_cleanup, in that order; and whenever the network is initialised, a
\* server or client socket exists or a session runs, the reader is not
\* initialised and holds no raw save buffer.
C7_DecodeThenServe ==
    /\ pc = "init_systems:wiifit_read_save" =>
          (last_call.fn = "wiifit_init" /\ initialized = 1)
    /\ pc = "init_systems:wiifit_cleanup" => last_call.fn = "wiifit_read_save"
    /\ pc = "init_systems:network_init" =>
          (last_call.fn = "wiifit_cleanup" /\ net_current_state = "NET_STATE_INIT"
             /\ ip_string = <<>>)
    /\ (\/ pc = "init_systems:network_init"
        \/ ip_string # <<>>
        \/ net_current_state # "NET_STATE_INIT"
        \/ AllSocks # {}
        \/ pc \in HcPcs) =>
          (initialized = 0 /\ save_buffer.null /\ save_size = 0)

\* A session is being served from a decoded save, the reader released.
C7_Witness ==
    /\ pc = "hc:send" /\ save_data.profile_count > 0 /\ ip_string # <<>>
    /\ initialized = 0 /\ save_buffer.null

\* C8: at most one client connection is open at any time; a connection is
\* accepted only from the main loop in STATE_WAITING with no client socket
\* open, never while handle_client runs.
C8_OneClientAtATime ==
    [][(/\ Cardinality(open_socks'.connected) <= 1
        /\ (open_socks'.connected \ open_socks.connected # {}) =>
              /\ open_socks.connected = {}
              /\ client_socket < 0
              /\ pc = "main:loop" /\ current_state = "STATE_WAITING"
        /\ pc' \in HcPcs => current_state' = "STATE_SYNCING")]_vars

\* A second connection has been accepted after a first session returned.
C8_Witness ==
    /\ pc = "main:loop" /\ current_state = "STATE_SYNCING"
    /\ Cardinality(open_socks.connected) = 1
    /\ recv_buffer # <<>>

\* C9: after a call of wiifit_read_save, error_code = 0 exactly when the call
\* returned success with at least one profile; the returned code equals
\* error_code; a non-zero error_code comes with a non-empty error_msg.
C9_ErrorCodeTellsOutcome ==
    last_call.fn = "wiifit_read_save" =>
        /\ save_data.error_code = 0 <=>
              (last_call.ret = WIIFIT_SUCCESS /\ save_data.profile_count >= 1)
        /\ last_call.ret = save_data.error_code
        /\ save_data.error_code # 0 => save_data.error_msg # <<>>

\* A read that failed after an earlier one had succeeded.
C9_Witness ==
    /\ last_call.fn = "wiifit_read_save"
    /\ last_call.ret = WIIFIT_ERR_NOT_FOUND
    /\ save_data.error_code = WIIFIT_ERR_NOT_FOUND
    /\ save_data.error_msg # <<>>
    /\ save_data.profile_count = 0
    /\ ~save_buffer.null

\* C10 (as stated): whenever wiifit_read_save has returned a non-zero code,
\* save_data holds no profiles.
C10_FailureLeavesNoProfiles ==
    (last_call.fn = "wiifit_read_save" /\ last_call.ret # WIIFIT_SUCCESS) =>
        (save_data.profile_count = 0 /\ save_data.profiles = <<>>)

\* ---------------------------------------------------------------------------
\* The pure functions called one at a time: from the initial state one call
\* is made on an input drawn from a bounded set, and last_call keeps the
\* input and what the call produced.
\* ---------------------------------------------------------------------------

CallDone(rec) ==
    /\ last_call' = rec
    /\ UNCHANGED <<reader_vars, save_data, net_vars, app_vars>>

\* Packed dates: bit 31, year, zero-based month, day, hour and minute fields
\* around and inside their domains.
PackedDates ==
    { [hi |-> top * 32768 + year * 16 + month0, lo |-> day * 2048 + hour * 64 + min] :
        top \in {0, 1}, year \in {0, 2005, 2006, 2023, 2024, 2030, 2031, 2047},
        month0 \in {0, 1, 3, 4, 11, 12, 15}, day \in {0, 1, 10, 28, 29, 30, 31},
        hour \in {0, 23, 24, 31}, min \in {0, 15, 59, 60, 63} }

\* parse_wiifit_date(packed_date, 0)
CallParseDate(packed_date) ==
    /\ last_call.fn = "none"
    /\ CallDone([fn |-> "parse_wiifit_date", ret |-> 0, packed_date |-> packed_date,
                 out |-> parse_wiifit_date(packed_date)])

\* char name[24] of WiiFitProfile
NAME_SIZE == 24

\* Name fields of NAME_UNITS code units: runs of one-, two- and three-byte
\* characters, with and without a zero unit.
NameFields ==
    { [i \in 1..NAME_UNITS |-> IF i <= k THEN a ELSE IF i <= k + n THEN b ELSE c] :
        k \in 0..NAME_UNITS, n \in {0, 1, 2}, a \in {65, 233, 12354}, b \in {65, 233, 12354},
        c \in {0, 12354} }

\* utf16be_to_utf8(profile_data + PROFILE_NAME_OFFSET, profile->name, 10):
\* dst is what precedes the terminator, written counts the terminator.
CallUtf16(units) ==
    LET buf == [size |-> PROFILE_SIZE, bytes |-> At(PROFILE_NAME_OFFSET, Utf16Bytes(units))]
        dst == utf16be_to_utf8(buf, PROFILE_NAME_OFFSET, NAME_UNITS)
    IN  /\ last_call.fn = "none"
        /\ CallDone([fn |-> "utf16be_to_utf8", ret |-> 0, units |-> units,
                     dst |-> dst, written |-> Len(dst) + 1])

\* Raw weights around the plausibility window 300..1500.
RawWeights == {0, 299, 300, 653, 1500, 1501}

\* A save buffer whose slot `slot` holds a profile "AB" with a measurement
\* table of the raw weights ws; the slots before it are blank.  The bytes of
\* a record after its balance field (the extended test data) are all `tail`.
TableImage(slot, ws, tail) ==
    [size |-> (slot + 1) * PROFILE_SIZE,
     bytes |-> Slot(slot * PROFILE_SIZE, <<65, 66>>, 170, <<25, 144, 5, 16>>,
                    [k \in DOMAIN ws |->
                       MeasRecord(TS_20230510_2315, ws[k], 2210, 510)
                         \o [i \in 1..(MEASUREMENT_RECORD_SIZE - 10) |-> tail]])]

\* A one-slot buffer with every byte from the name field to the end of the
\* slot 0x03: each record of the table has raw weight 0x0303 = 771.
FullImage ==
    [size |-> PROFILE_SIZE,
     bytes |-> [o \in PROFILE_NAME_OFFSET..(PROFILE_SIZE - 1) |-> 3]]

\* The bytes read by parse_profile's scans of the measurement table when the
\* main loop has produced count records: the three records before the table
\* (ts and weight), the first five records (ts and weight), then timestamp,
\* weight, BMI and balance of every produced record and the weight of the
\* record the loop stopped at.
MeasurementReads(base, count) ==
    LET meas_ptr == base + ACTUAL_MEASUREMENT_OFFSET
        before == { meas_ptr + i * MEASUREMENT_RECORD_SIZE + k : i \in { j \in -3..-1 :
                       meas_ptr + j * MEASUREMENT_RECORD_SIZE >= base }, k \in 0..5 }
        first  == { meas_ptr + i * MEASUREMENT_RECORD_SIZE + k : i \in 0..4, k \in 0..5 }
        taken  == { meas_ptr + i * MEASUREMENT_RECORD_SIZE + k : i \in 0..(count - 1), k \in 0..9 }
        rec    == ACTUAL_MEASUREMENT_OFFSET + count * MEASUREMENT_RECORD_SIZE
        stop   == IF count < MAX_MEASUREMENTS /\ ~(rec + MEASUREMENT_RECORD_SIZE > PROFILE_SIZE)
                  THEN { base + rec + 4, base + rec + 5 } ELSE {}
    IN  before \cup first \cup taken \cup stop

\* parse_profile(buffer + slot * PROFILE_SIZE, &profile) on a zeroed profile,
\* as wiifit_read_save calls it for a slot that fits in the buffer.
CallParseProfile(slot, buf, ws) ==
    LET base == slot * PROFILE_SIZE
        r == parse_profile(buf, base, ZeroProfile)
    IN  /\ last_call.fn = "none"
        /\ base + PROFILE_SIZE <= buf.size
        /\ CallDone([fn |-> "parse_profile", ret |-> r.ret, slot |-> slot, size |-> buf.size,
                     ws |-> ws, profile |-> r.profile,
                     ext |-> [k \in 10..(MEASUREMENT_RECORD_SIZE - 1) |->
                                Rd(buf, base + ACTUAL_MEASUREMENT_OFFSET + k)],
                     reads |-> MeasurementReads(base, r.profile.measurement_count)])

\* Buffer sizes up to MaxBuf, past the longest response encoded below.
MaxBuf == 320

BufferSizes == 1..MaxBuf \cup {MAX_MESSAGE_SIZE}

\* json_escape_string(src, dst, dst_size) on short strings with characters
\* that need an escape.
CallEscape(src, dst_size) ==
    LET dst == json_escape_string(src, dst_size)
    IN  /\ last_call.fn = "none"
        /\ CallDone([fn |-> "json_escape_string", ret |-> Len(dst), src |-> src,
                     dst_size |-> dst_size, dst |-> dst, written |-> Len(dst) + 1])

\* A decoded profile with the measurements ms, and a measurement with the
\* three floats w, b and bal.
ProfileOf(name, ms) ==
    [name |-> name, height_cm |-> 170, birth_year |-> 1990, birth_month |-> 5,
     birth_day |-> 10, measurements |-> ms, measurement_count |-> Len(ms),
     activity_count |-> 0]

MeasurementOf(w, b, bal) ==
    [timestamp |-> parse_wiifit_date(TS_20230510_2315), weight_kg |-> w, bmi |-> b,
     balance_pct |-> bal, has_extended_data |-> 0]

SaveDataOf(profiles) ==
    [profiles |-> profiles, profile_count |-> Len(profiles), error_code |-> 0,
     error_msg |-> <<>>]

\* Decoded saves of zero, one and two profiles with zero to two measurements.
EncoderSaves ==
    LET m1 == MeasurementOf(Fixed(653, 10), Fixed(2210, 100), Fixed(510, 10))
        m2 == MeasurementOf(Fixed(648, 10), Fixed(2193, 100), Fixed(495, 10))
    IN  { SaveDataOf(<<>>),
          SaveDataOf(<< ProfileOf(<<"A", "B">>, <<>>) >>),
          SaveDataOf(<< ProfileOf(<<"A", "B">>, <<m1, m2>>) >>),
          SaveDataOf(<< ProfileOf(<<"A">>, <<m1>>), ProfileOf(<<"B">>, <<>>) >>) }

\* A float of a measurement: a number, a negative number, not-a-number and
\* the two infinities.
FloatValues(scale) ==
    { Fixed(653, scale), Fixed(-5, scale), Fixed(0, 0), Fixed(1, 0), Fixed(-1, 0) }

\* json_build_response(&save_data, buffer, buffer_size)
CallBuildResponse(sd, buffer_size) ==
    LET r == json_build_response(sd, buffer_size)
    IN  /\ last_call.fn = "none"
        /\ CallDone([fn |-> "json_build_response", ret |-> r.ret, sd |-> sd,
                     buffer_size |-> buffer_size, text |-> r.text, extent |-> r.extent,
                     overflow |-> r.overflow])

\* json_build_error(error_code, error_msg, buffer, buffer_size)
CallBuildError(error_code, error_msg, buffer_size) ==
    LET r == json_build_error(error_code, error_msg, buffer_size)
    IN  /\ last_call.fn = "none"
        /\ CallDone([fn |-> "json_build_error", ret |-> r.ret, error_code |-> error_code,
                     error_msg |-> error_msg, buffer_size |-> buffer_size,
                     text |-> r.text, extent |-> r.extent])

\* handle_client from "Build JSON response" to the call of network_send, on
\* the decode result sd: the length and the bytes handed to network_send
\* (sent: the call was made), beside the length of the C string the encoder
\* left in json_buffer and the number of measurements sd holds.
CallServe(sd) ==
    LET Served(built) ==
            [fn |-> "handle_client", ret |-> built.ret,
             json_len |-> built.ret,
             sent |-> ~BadLength(built.ret),
             handed |-> IF BadLength(built.ret) THEN <<>>
                        ELSE BufferBytes(built.text, built.ret),
             text_len |-> Len(built.text),
             profile_count |-> sd.profile_count,
             measurements |-> [p \in 1..sd.profile_count |->
                                 sd.profiles[p].measurement_count]]
    IN  /\ last_call.fn = "none"
        /\ \E built \in { IF UseResponseEncoder(sd)
                           THEN json_build_response(sd, MAX_MESSAGE_SIZE)
                           ELSE json_build_error(sd.error_code, sd.error_msg,
                                                 MAX_MESSAGE_SIZE) } :
              CallDone(Served(built))

UnitNext ==
    \/ \E packed_date \in PackedDates : CallParseDate(packed_date)
    \/ \E n \in 0..4, dst_size \in {1, 2, 3, 4, 5, ESCAPED_NAME_SIZE} :
          \E src \in [1..n -> {"a", "\"", "\\", "\n", "\r", "\t"}] : CallEscape(src, dst_size)
    \/ \E c \in {"a", "\"", "\n"} :
          CallEscape([i \in 1..(ESCAPED_NAME_SIZE - 2) |-> "a"] \o <<c, "b">>, ESCAPED_NAME_SIZE)
    \/ \E sd \in EncoderSaves, buffer_size \in BufferSizes : CallBuildResponse(sd, buffer_size)
    \/ \E w \in FloatValues(10), b \in FloatValues(100), bal \in FloatValues(10) :
          CallBuildResponse(SaveDataOf(<< ProfileOf(<<"A", "B">>, << MeasurementOf(w, b, bal) >>) >>),
                            MAX_MESSAGE_SIZE)
    \/ \E error_code \in {WIIFIT_ERR_INIT, WIIFIT_ERR_PARSE},
           error_msg \in {MSG_NotInitialized, MSG_NoProfiles, <<"a", "\"", "b">>},
           buffer_size \in BufferSizes :
          CallBuildError(error_code, error_msg, buffer_size)
    \/ \E slot \in {0, 2}, ws \in [1..3 -> RawWeights], tail \in {0, 255} :
          CallParseProfile(slot, TableImage(slot, ws, tail), ws)
    \/ CallParseProfile(0, FullImage, [k \in 1..MAX_MEASUREMENTS |-> 771])
    \/ \E units \in NameFields : CallUtf16(units)
    \/ \E file \in { FullImage, TableImage(0, <<653, 648, 700>>, 0),
                     TableImage(0, <<299>>, 0) } :
          LET profiles == ProfileLoop(file, file.size, 0,
                                      [profiles |-> <<>>, target |-> ZeroProfile]).profiles
          IN  CallServe([profiles |-> profiles, profile_count |-> Len(profiles),
                         error_code |-> WIIFIT_SUCCESS, error_msg |-> <<>>])

UnitSpec == Init /\ [][UnitNext]_vars

\* C14 (as stated): the decoded timestamp has year, month, day, hour and
\* minute equal to the packed fields, each replaced on its own by
\* 2020/1/1/0/0 when outside 2006..2030 / 1..12 / 1..31 / 0..23 / 0..59, and
\* second 0; 0x7E7455CF decodes to 2023-05-10 23:15:00.
C14_DateFieldsClampedIndependently ==
    /\ parse_wiifit_date(TS_20230510_2315) =
          [year |-> 2023, month |-> 5, day |-> 10, hour |-> 23, min |-> 15, sec |-> 0]
    /\ last_call.fn = "parse_wiifit_date" =>
          LET p == last_call.packed_date
              DateYear == (p.hi \div 16) % 2048
              DateMonth == (p.hi % 16) + 1
              DateDay == (p.lo \div 2048) % 32
              DateHour == (p.lo \div 64) % 32
              DateMinute == p.lo % 64
          IN  last_call.out =
                [year  |-> IF DateYear \in 2006..2030 THEN DateYear ELSE 2020,
                 month |-> IF DateMonth \in 1..12 THEN DateMonth ELSE 1,
                 day   |-> IF DateDay \in 1..31 THEN DateDay ELSE 1,
                 hour  |-> IF DateHour \in 0..23 THEN DateHour ELSE 0,
                 min   |-> IF DateMinute \in 0..59 THEN DateMinute ELSE 0,
                 sec   |-> 0]

\* C13 (as stated): the name conversion writes at most 23 bytes and a
\* terminator, all inside the 24-byte name field.
C13_NameStaysInField ==
    last_call.fn = "utf16be_to_utf8" =>
        /\ Len(last_call.dst) <= NAME_CAP
        /\ last_call.written <= NAME_SIZE

\* C11: whatever a slot holds, the scans of its measurement table read only
\* bytes of that slot and of the save buffer, and measurement_count is at most
\* MAX_MEASUREMENTS and at most the number of whole records between the
\* table offset and the end of the slot.
C11_ScanStaysInSlot ==
    last_call.fn = "parse_profile" =>
        LET base == last_call.slot * PROFILE_SIZE
            count == last_call.profile.measurement_count
        IN  /\ \A o \in last_call.reads :
                  /\ base <= o /\ o < base + PROFILE_SIZE
                  /\ 0 <= o /\ o < last_call.size
            /\ count <= MAX_MEASUREMENTS
            /\ count <= (PROFILE_SIZE - ACTUAL_MEASUREMENT_OFFSET) \div MEASUREMENT_RECORD_SIZE

\* C11's case: a table whose every record is plausible, decoded up to the cap.
C11_Witness ==
    /\ last_call.fn = "parse_profile"
    /\ Len(last_call.ws) = MAX_MEASUREMENTS
    /\ last_call.profile.measurement_count = MAX_MEASUREMENTS

\* C12: the decoded measurements are the longest prefix of the table whose
\* raw weights lie in 300..1500, in stored order: the first record outside
\* the window ends the sequence and no later record is produced.
C12_LongestPlausiblePrefix ==
    (last_call.fn = "parse_profile" /\ last_call.ret = 1) =>
        LET ws == last_call.ws
            meas == last_call.profile.measurements
            n == last_call.profile.measurement_count
        IN  /\ n = Len(meas)
            /\ n <= Len(ws)
            /\ \A k \in 1..n : /\ ws[k] \in 300..1500
                                /\ meas[k].weight_kg = Fixed(ws[k], 10)
            /\ n < Len(ws) => ws[n + 1] \notin 300..1500

\* C12's case: a plausible record after an implausible one is not produced.
C12_Witness ==
    /\ last_call.fn = "parse_profile"
    /\ last_call.ws = <<653, 299, 300>>
    /\ last_call.profile.measurement_count = 1

\* C15: for every buffer_size >= 1 json_build_response and json_build_error
\* write only to indices 0..buffer_size-1 of the buffer, and
\* json_escape_string writes only inside its destination, terminator included.
C15_EncodersStayInBuffer ==
    /\ last_call.fn \in {"json_build_response", "json_build_error"} =>
          /\ last_call.buffer_size >= 1
          /\ last_call.extent <= last_call.buffer_size
          /\ Len(last_call.text) <= last_call.buffer_size - 1
    /\ last_call.fn = "json_escape_string" =>
          /\ last_call.written <= last_call.dst_size
          /\ Len(last_call.dst) <= last_call.dst_size - 1

\* C15's case: an append that did not fit was cut at the last byte of the buffer.
C15_Witness ==
    /\ last_call.fn = "json_build_response"
    /\ last_call.overflow
    /\ last_call.extent = last_call.buffer_size
    /\ last_call.buffer_size > 100

\* C16 (as stated): json_build_response returns the length of the string it
\* left in the buffer, when the payload fits and when it was truncated.
C16_ReturnIsLengthWritten ==
    last_call.fn = "json_build_response" => last_call.ret = Len(last_call.text)

\* C17 (as stated): a response truncated on overflow is balanced: in every
\* prefix no kind of bracket has more closes than opens, and over the whole
\* text every kind has as many closes as opens (brackets inside strings
\* apart).
C17_TruncatedIsBalanced ==
    (last_call.fn = "json_build_response" /\ last_call.overflow) =>
        LET text == last_call.text
            Structural(i) == Cardinality({ j \in 1..(i - 1) : text[j] = "\"" }) % 2 = 0
            Count(c, n) == Cardinality({ i \in 1..n : text[i] = c /\ Structural(i) })
        IN  /\ \A n \in 1..Len(text) : /\ Count("}", n) <= Count("{", n)
                                       /\ Count("]", n) <= Count("[", n)
            /\ Count("}", Len(text)) = Count("{", Len(text))
            /\ Count("]", Len(text)) = Count("[", Len(text))

C19_ProfilesAreOccupiedSlotsInOrder ==
    (last_call.fn = "wiifit_read_save" /\ last_call.ret = WIIFIT_SUCCESS) =>
        LET fit == { i \in 0..(MAX_PROFILES - 1) : i * PROFILE_SIZE + PROFILE_SIZE <= save_size }
            occupied == { i \in fit :
                            read_be16(save_buffer, i * PROFILE_SIZE + PROFILE_NAME_OFFSET) # 0 }
            SlotOf(k) == CHOOSE i \in occupied :
                            Cardinality({ j \in occupied : j < i }) = k - 1
        IN  /\ save_data.profile_count = Cardinality(occupied)
            /\ save_data.profile_count <= MAX_PROFILES
            /\ Len(save_data.profiles) = save_data.profile_count
            /\ \A k \in 1..save_data.profile_count :
                  save_data.profiles[k] =
                      parse_profile(save_buffer, SlotOf(k) * PROFILE_SIZE, ZeroProfile).profile

\* C19's case: a blank slot between two occupied slots.
C19_Witness ==
    /\ last_call.fn = "wiifit_read_save"
    /\ last_call.ret = WIIFIT_SUCCESS
    /\ save_size = 3 * PROFILE_SIZE
    /\ save_data.profile_count = 2
    /\ save_data.profiles[2].name = Utf8Of(233)

\* C20: the save paths are opened in list order and the first that opens
\* ends the search: every open before the last one failed, the descriptor
\* used for the decode is the one of that last open, and the call returns
\* WIIFIT_ERR_NOT_FOUND exactly when all NUM_SAVE_PATHS opens failed, with a
\* message that carries that number of paths.
C20_FirstPathThatOpens ==
    (last_call.fn = "wiifit_read_save" /\ last_call.ret # WIIFIT_ERR_INIT) =>
        LET opened == last_call.opened
            n == Len(opened)
        IN  /\ n >= 1
            /\ \A k \in 1..n : opened[k].path = k
            /\ \A k \in 1..(n - 1) : opened[k].fd < 0
            /\ last_tried_path = n
            /\ last_call.ret = WIIFIT_ERR_NOT_FOUND <=>
                  (n = NUM_SAVE_PATHS /\ opened[n].fd < 0)
            /\ last_call.ret = WIIFIT_ERR_NOT_FOUND =>
                  /\ save_data.error_code = WIIFIT_ERR_NOT_FOUND
                  /\ Contains(save_data.error_msg,
                              MSG_SaveNotFound2 \o FmtD(NUM_SAVE_PATHS) \o MSG_SaveNotFound3)
            /\ last_call.ret # WIIFIT_ERR_NOT_FOUND =>
                  /\ opened[n].fd >= 0
                  /\ last_call.fd = opened[n].fd

\* C20's case: the third path opens after two failures and the decode succeeds.
C20_Witness ==
    /\ last_call.fn = "wiifit_read_save"
    /\ last_call.ret = WIIFIT_SUCCESS
    /\ Len(last_call.opened) = 3
    /\ last_call.opened[1].fd < 0

\* C30 (as stated): the has_extended_data flag of a decoded measurement comes
\* from the record's bytes: it is set for a record whose every byte after the
\* balance field is 0xFF and clear for a record whose every such byte is 0.
C30_ExtendedFlagFollowsRecord ==
    (last_call.fn = "parse_profile" /\ last_call.profile.measurement_count >= 1) =>
        LET flag == last_call.profile.measurements[1].has_extended_data
        IN  /\ (\A k \in DOMAIN last_call.ext : last_call.ext[k] = 255) => flag # 0
            /\ (\A k \in DOMAIN last_call.ext : last_call.ext[k] = 0) => flag = 0

C21_StorageFailuresTyped ==
    last_call.fn = "wiifit_read_save" =>
        LET io == last_call.io
            Calls(c) == { k \in DOMAIN io : io[k].call = c }
            Did(c) == Calls(c) # {}
            RetOf(c) == io[CHOOSE k \in Calls(c) : TRUE].ret
            stat_failed == Did("ISFS_GetFileStats") /\ RetOf("ISFS_GetFileStats") < 0
            alloc_failed == Did("memalign") /\ RetOf("memalign") = 0
            read_failed == Did("ISFS_Read") /\
                             (RetOf("ISFS_Read") < 0 \/ RetOf("ISFS_Read") < save_size)
        IN  /\ \A c \in {"ISFS_GetFileStats", "memalign", "ISFS_Read"} :
                  Cardinality(Calls(c)) <= 1
            /\ Cardinality({ k \in DOMAIN last_call.opened : last_call.opened[k].fd >= 0 }) <= 1
            /\ stat_failed => /\ last_call.ret = WIIFIT_ERR_READ
                              /\ ~Did("memalign") /\ ~Did("ISFS_Read") /\ ~Did("parse_profile")
            /\ alloc_failed => /\ last_call.ret = WIIFIT_ERR_MEMORY
                               /\ ~Did("ISFS_Read") /\ ~Did("parse_profile")
            /\ read_failed => /\ last_call.ret = WIIFIT_ERR_READ
                              /\ ~Did("parse_profile")
            /\ (Did("ISFS_Read") /\ ~read_failed /\ save_data.profile_count = 0) =>
                  last_call.ret = WIIFIT_ERR_PARSE
            /\ last_call.ret = WIIFIT_ERR_MEMORY => alloc_failed
            /\ last_call.ret = WIIFIT_ERR_READ => (stat_failed \/ read_failed)
            /\ last_call.ret \in {WIIFIT_ERR_READ, WIIFIT_ERR_MEMORY, WIIFIT_ERR_PARSE} =>
                  save_data.error_code = last_call.ret

\* C21's case: a read that returned one byte less than the file length.
C21_Witness ==
    /\ last_call.fn = "wiifit_read_save"
    /\ last_call.ret = WIIFIT_ERR_READ
    /\ \E k \in DOMAIN last_call.io :
          /\ last_call.io[k].call = "ISFS_Read"
          /\ last_call.io[k].ret = save_size - 1

\* C25: whatever one net_recv gives, network_receive returns the byte count
\* (positive) for data, 0 exactly for would-block, NET_ERR_DISCONNECTED when
\* there is no client socket or the peer closed, NET_ERR_RECV for any other
\* error; and a poll of the acknowledgement wait that stays in the loop,
\* whatever network_receive returned, leaves client_socket, server_socket and
\* the open descriptors as they were.
C25_ReceiveResultProtocol ==
    [][/\ \A r \in RecvOutcomes :
            LET got == network_receive(recv_buffer, RECV_BUFFER_SIZE - 1, r)
            IN  /\ client_socket < 0 => got.ret = NET_ERR_DISCONNECTED
                /\ client_socket >= 0 =>
                     /\ r.kind = "data" => got.ret = Len(r.data) /\ got.ret > 0
                     /\ r.kind = "closed" => got.ret = NET_ERR_DISCONNECTED
                     /\ r.kind = "again" => got.ret = 0
                     /\ r.kind = "error" => got.ret = NET_ERR_RECV
                     /\ got.ret = 0 => r.kind = "again"
       /\ (pc = "hc:wait_ack" /\ pc' = "hc:wait_ack") =>
            /\ recv_len' \in {0, NET_ERR_DISCONNECTED, NET_ERR_RECV}
            /\ client_socket' = client_socket
            /\ server_socket' = server_socket
            /\ open_socks' = open_socks]_vars

\* C25's case: network_receive has returned NET_ERR_RECV and the client
\* socket is still open.
C25_Witness ==
    /\ pc = "hc:wait_ack" /\ hist.ack_polled
    /\ recv_len = NET_ERR_RECV
    /\ client_socket >= 0 /\ client_socket \in open_socks.connected

\* C23: the request wait makes at most 500 polls and the acknowledgement wait
\* at most 200: in either loop the time waited is a multiple of 10 ms below
\* the loop's bound (5000 ms, 2000 ms), every poll that stays in the loop adds
\* exactly 10 ms, a poll that returned 0 with time left stays in the loop, and
\* the poll made 10 ms before the bound leaves it.
C23_PollingLoopsBounded ==
    [][/\ pc = "hc:wait_request" =>
            /\ waited_ms \in { 10 * k : k \in 0..499 }
            /\ pc' = "hc:wait_request" => recv_len' = 0 /\ waited_ms' = waited_ms + 10
            /\ (recv_len' = 0 /\ waited_ms + 10 < 5000) => pc' = "hc:wait_request"
            /\ waited_ms + 10 >= 5000 => pc' # "hc:wait_request"
       /\ pc = "hc:wait_ack" =>
            /\ waited_ms \in { 10 * k : k \in 0..199 }
            /\ pc' = "hc:wait_ack" => recv_len' <= 0 /\ waited_ms' = waited_ms + 10
            /\ (recv_len' = 0 /\ waited_ms + 10 < 2000) => pc' = "hc:wait_ack"
            /\ waited_ms + 10 >= 2000 => pc' # "hc:wait_ack"]_vars

\* C23's case: the acknowledgement wait ended by its 200th poll.
C23_Witness ==
    /\ pc = "hc:return" /\ hist.exit = "no_ack" /\ hist.ack_polled
    /\ waited_ms = 2000 /\ recv_len = 0

\* C24: a session whose first received fragment is the head of a sync
\* request ({"action": with the "sync" marker still to come) is not closed on
\* that fragment while time remains before the request timeout: it goes on
\* receiving, so that the rest of the request can be added to it.
C24_FragmentsAccumulate ==
    [][(/\ pc = "hc:request" /\ recv_len > 0
        /\ hist.request = REQ_SyncHead
        /\ ~IsSyncRequest(hist.request)
        /\ IsSyncRequest(hist.request \o REQ_SyncTail)
        /\ waited_ms < REQUEST_TIMEOUT_MS)
          => pc' # "hc:return"]_vars

\* C29: once a response has been sent, whatever the acknowledgement wait
\* receives, the session leaves that wait only by closing: the client
\* connection is closed, the listening socket is the same and open, the
\* network state is NET_STATE_WAITING, the response handed to network_send is
\* still the only one, and handle_client's return puts the application in
\* STATE_WAITING.
C29_AckDoesNotChangeOutcome ==
    [][/\ hist.sends <= 1
       /\ pc = "hc:wait_ack" =>
            /\ hist.sends = 1
            /\ pc' \in {"hc:wait_ack", "hc:return"}
            /\ hist'.sends = 1 /\ hist'.payload = hist.payload
            /\ pc' = "hc:return" =>
                 /\ client_socket' < 0
                 /\ client_socket \notin open_socks'.connected
                 /\ server_socket' = server_socket
                 /\ server_socket \in open_socks'.listening
                 /\ net_current_state' = "NET_STATE_WAITING"
       /\ (pc = "hc:return" /\ hist.sends = 1) =>
            /\ current_state' = "STATE_WAITING" /\ pc' = "main:loop"
            /\ UNCHANGED net_vars]_vars

\* C29's case: a response was sent, the peer then closed, and the session
\* has ended.
C29_Witness ==
    /\ pc = "hc:return" /\ hist.sends = 1 /\ hist.ack_polled
    /\ hist.exit = "no_ack" /\ recv_len = NET_ERR_DISCONNECTED
    /\ client_socket < 0 /\ net_current_state = "NET_STATE_WAITING"

\* ---------------------------------------------------------------------------
\* One session of handle_client on its own, from the main loop's entry in
\* STATE_SYNCING to its return.  The start-up decode has left a save with one
\* profile of 1 or of 14 measurements (a response of more than two chunks),
\* wiifit_cleanup has run, the server listens on descriptor 0 and the client
\* was accepted on descriptor 1.  The program runs on as long as it can take
\* a step; nothing is assumed about what the peer or the transport do.
\* ---------------------------------------------------------------------------

SessionInit ==
    /\ initialized = 0
    /\ save_buffer = NullBuffer
    /\ save_size = 0
    /\ last_tried_path = 1
    /\ save_data \in
         { LET file == TableImage(0, [k \in 1..n |-> 700], 0)
               profiles == ProfileLoop(file, file.size, 0,
                                       [profiles |-> <<>>, target |-> ZeroProfile]).profiles
           IN  [profiles |-> profiles, profile_count |-> Len(profiles),
                error_code |-> WIIFIT_SUCCESS, error_msg |-> <<>>] : n \in {1, 14} }
    /\ last_call = [fn |-> "wiifit_cleanup", ret |-> 0]
    /\ net_current_state = "NET_STATE_CONNECTED"
    /\ ip_string = <<>>
    /\ server_socket = 0
    /\ client_socket = 1
    /\ open_socks = [listening |-> {0}, connected |-> {1}]
    /\ current_state = "STATE_SYNCING"
    /\ pc = "main:loop"
    /\ wpad_initialized = TRUE
    /\ recv_buffer = <<>>
    /\ json_buffer = <<>>
    /\ recv_len = 0 /\ waited_ms = 0 /\ json_len = 0 /\ send_ret = 0 /\ total_sent = 0
    /\ hist = NoHist

SessionNext ==
    \/ HcEnter
    \/ \E r \in RecvOutcomes : HcRequestPoll(r)
    \/ HcHandleRequest
    \/ \E ret \in SendOutcomes(ToSend(json_len, total_sent)) : NetSendStep(ret)
    \/ \E r \in RecvOutcomes : HcAckPoll(r)
    \/ HcReturn

SessionSpec == SessionInit /\ [][SessionNext]_vars /\ WF_vars(SessionNext)

\* C22: a session that has begun to wait for its request ends: handle_client
\* returns, whatever the receives and the sends on the connection give.
C22_SessionEnds == (pc = "hc:wait_request") ~> (pc = "hc:return")

\* C28: every net_send of network_send is offered at most 512 bytes, all that
\* is left when that is less, starting at the count of bytes accepted so far;
\* what it accepts is added, in order, to what was accepted before, so that
\* the bytes accepted are always the beginning of the data; after a
\* would-block the same range is offered again; and a return value that is
\* not negative is len, all of the data having been accepted.
C28_SendInOrderedChunks ==
    [][/\ pc = "hc:send" =>
            /\ total_sent < json_len /\ Len(hist.payload) = json_len
            /\ hist.sent = SubSeq(hist.payload, 1, total_sent)
            /\ total_sent' >= total_sent /\ total_sent' - total_sent <= 512
            /\ hist'.sent = hist.sent \o SubSeq(hist.payload, total_sent + 1, total_sent')
            /\ hist'.payload = hist.payload
            /\ pc' = "hc:send" =>
                 /\ hist'.offered.from = total_sent
                 /\ hist'.offered.len = Min(512, json_len - total_sent)
                 /\ total_sent' <= total_sent + hist'.offered.len
                 /\ total_sent' < json_len
                 /\ (hist.turn = 1 /\ total_sent = hist.offered.from) =>
                      hist'.offered = hist.offered
            /\ (pc' # "hc:send" /\ send_ret' >= 0) =>
                 /\ send_ret' = json_len /\ total_sent' = json_len
                 /\ hist'.sent = hist.payload
            /\ (pc' # "hc:send" /\ send_ret' < 0) => total_sent' = total_sent
       /\ pc \in {"hc:wait_ack", "hc:return"} => hist'.sent = hist.sent \/ pc' = "main:loop"]_vars

\* C28's case: a response of more than two chunks has been accepted whole by
\* the transport.
C28_Witness ==
    /\ pc = "hc:wait_ack" /\ json_len > 2 * 512
    /\ send_ret = json_len /\ hist.sent = hist.payload

\* C27: for a decoded save within the decoder's limits the sync response is
\* handed to network_send, the length passed is the length of the text the
\* encoder left in the buffer, and the bytes passed hold one object for every
\* measurement of every profile.
C27_ResponseIsWholePayload ==
    (last_call.fn = "handle_client" /\ last_call.profile_count >= 1) =>
        LET handed == last_call.handed
            objects == Cardinality({ i \in 1..(Len(handed) - Len(JSON_Date) + 1) :
                          SubSeq(handed, i, i + Len(JSON_Date) - 1) = JSON_Date })
            RECURSIVE Sum(_)
            Sum(p) == IF p = 0 THEN 0 ELSE last_call.measurements[p] + Sum(p - 1)
        IN  /\ last_call.profile_count <= MAX_PROFILES
            /\ \A p \in 1..last_call.profile_count :
                  last_call.measurements[p] <= MAX_MEASUREMENTS
            /\ last_call.sent
            /\ last_call.json_len = last_call.text_len
            /\ objects = Sum(last_call.profile_count)

\* C31: a failed initialisation can be left: controller input has been
\* initialised whenever the main loop runs, so that in STATE_ERROR a HOME
\* press can be reported; a HOME press in STATE_ERROR moves the application
\* to STATE_EXIT; and in STATE_EXIT the loop ends with network_shutdown and
\* wiifit_cleanup.
C31_ErrorStateCanExit ==
    /\ pc = "main:loop" => wpad_initialized
    /\ (pc = "main:loop" /\ current_state = "STATE_ERROR") =>
         /\ {"HOME"} \in Pressed
         /\ ENABLED (ErrorPoll({"HOME"}) /\ current_state' = "STATE_EXIT")
    /\ (pc = "main:loop" /\ current_state = "STATE_EXIT") =>
         ENABLED (MainExit /\ open_socks'.listening = {} /\ initialized' = 0)

\* C32: in one wiifit_read_save every descriptor an ISFS_Open returned is
\* closed by exactly one ISFS_Close and nothing else is closed; no
\* ISFS_GetFileStats and no ISFS_Read is made after the close; a call that
\* opened the file (stat failure, allocation failure, failed or short read,
\* parse failure, success) has made its close when it returns, and a call
\* that opened nothing closes nothing.
C32_HandleClosedOnce ==
    last_call.fn = "wiifit_read_save" =>
        LET io == last_call.io
            opened == last_call.opened
            opens == { k \in DOMAIN opened : opened[k].fd >= 0 }
            closes == { k \in DOMAIN io : io[k].call = "ISFS_Close" }
        IN  /\ \A k \in opens :
                  Cardinality({ c \in closes : io[c].ret = opened[k].fd }) = 1
            /\ \A c \in closes : \E k \in opens : opened[k].fd = io[c].ret
            /\ Cardinality(closes) = Cardinality(opens)
            /\ \A c \in closes : \A j \in DOMAIN io :
                  j > c => io[j].call \notin {"ISFS_GetFileStats", "ISFS_Read"}
            /\ last_call.ret \in {WIIFIT_ERR_READ, WIIFIT_ERR_MEMORY, WIIFIT_ERR_PARSE,
                                  WIIFIT_SUCCESS} => Cardinality(closes) = 1
            /\ last_call.ret \in {WIIFIT_ERR_INIT, WIIFIT_ERR_NOT_FOUND} => closes = {}

\* C32's case: the allocation failed after the file was opened, and the
\* descriptor was closed.
C32_Witness ==
    /\ last_call.fn = "wiifit_read_save"
    /\ last_call.ret = WIIFIT_ERR_MEMORY
    /\ last_call.fd >= 0
    /\ \E k \in DOMAIN last_call.io :
          last_call.io[k] = [call |-> "ISFS_Close", ret |-> last_call.fd]

\* C33 (as stated): network_start_server is invoked, by an A press in
\* STATE_MENU, only when server_socket is -1.
C33_ServerStartedOnlyAtMinusOne ==
    (pc = "main:loop" /\ current_state = "STATE_MENU") => server_socket = -1

\* C33: no listening socket is leaked.  At most one listening socket is open
\* and it is server_socket; in STATE_MENU, where an A press invokes
\* network_start_server, none is open and server_socket is negative; there a
\* net_socket failure leaves its error code in server_socket, a failed bind
\* or listen closes the socket just created and sets server_socket to -1,
\* and a start that succeeds, after a shutdown as well as the first time,
\* opens the one listening socket; B in STATE_WAITING closes the listening
\* socket on the way to STATE_MENU, and none is open when main has ended.
C33_NoListeningSocketLeaked ==
    [][/\ Cardinality(open_socks.listening) <= 1
       /\ open_socks.listening = IF server_socket >= 0 THEN {server_socket} ELSE {}
       /\ (pc = "main:loop" /\ current_state = "STATE_MENU") =>
            /\ server_socket < 0
            /\ \A env \in StartServerEnvs :
                 LET s == network_start_server(env)
                 IN  /\ env.sock_ret < 0 =>
                          /\ s.ret = NET_ERR_SOCKET /\ s.server_socket = env.sock_ret
                          /\ s.open_socks = open_socks
                     /\ (env.sock_ret >= 0 /\ (env.bind_ret < 0 \/ env.listen_ret < 0)) =>
                          /\ s.ret \in {NET_ERR_BIND, NET_ERR_LISTEN}
                          /\ s.server_socket = -1 /\ s.open_socks = open_socks
                     /\ (env.sock_ret >= 0 /\ env.bind_ret >= 0 /\ env.listen_ret >= 0) =>
                          /\ s.ret = NET_SUCCESS /\ s.server_socket >= 0
                          /\ s.open_socks.listening = {s.server_socket}
            /\ current_state' = "STATE_WAITING" =>
                 server_socket' >= 0 /\ open_socks'.listening = {server_socket'}
            /\ current_state' = "STATE_MENU" => open_socks'.listening = {}
       /\ (pc = "main:loop" /\ current_state = "STATE_WAITING") =>
            /\ server_socket >= 0
            /\ current_state' = "STATE_MENU" =>
                 /\ server_socket' = -1
                 /\ open_socks' = [listening |-> {}, connected |-> {}]
            /\ current_state' # "STATE_MENU" => server_socket' = server_socket
       /\ pc' = "done" => server_socket' < 0 /\ open_socks'.listening = {}]_vars

\* C33's case: the server was started, served a session and was shut down
\* with B; the application is in STATE_MENU again with nothing open.
C33_Witness ==
    /\ pc = "main:loop" /\ current_state = "STATE_MENU"
    /\ recv_buffer # <<>>
    /\ server_socket = -1 /\ open_socks.listening = {}
    /\ net_current_state = "NET_STATE_INIT"

\* C34: in STATE_WAITING in the main loop no client connection is open and
\* client_socket is negative; a step that enters STATE_SYNCING leaves an open
\* client connection in client_socket; the session keeps that connection
\* until handle_client returns, and STATE_SYNCING is left only for
\* STATE_WAITING, with the connection closed; STATE_EXIT is entered only by
\* a poll of STATE_MENU, STATE_WAITING or STATE_ERROR that reported HOME, by
\* no poll that did not, and is never left.
C34_StatesAgreeWithConnection ==
    [][/\ (pc = "main:loop" /\ current_state = "STATE_WAITING") =>
            client_socket < 0 /\ open_socks.connected = {}
       /\ (current_state # "STATE_SYNCING" /\ current_state' = "STATE_SYNCING") =>
            /\ pc = "main:loop" /\ current_state = "STATE_WAITING"
            /\ client_socket' >= 0 /\ open_socks'.connected = {client_socket'}
       /\ current_state = "STATE_SYNCING" =>
            /\ current_state' \in {"STATE_SYNCING", "STATE_WAITING"}
            /\ pc \in {"main:loop", "hc:wait_request", "hc:request", "hc:send",
                       "hc:wait_ack"} =>
                 client_socket >= 0 /\ client_socket \in open_socks.connected
            /\ current_state' = "STATE_WAITING" =>
                 /\ pc = "hc:return" /\ pc' = "main:loop"
                 /\ client_socket' < 0 /\ open_socks'.connected = {}
       /\ current_state = "STATE_EXIT" => current_state' = "STATE_EXIT" /\ pc' = "done"
       /\ (current_state # "STATE_EXIT" /\ current_state' = "STATE_EXIT") =>
            /\ pc = "main:loop"
            /\ \E pressed \in Pressed :
                 /\ "HOME" \in pressed
                 /\ \/ \E env \in StartServerEnvs : MenuPoll(pressed, env)
                    \/ \E acc \in AcceptOutcomes : WaitingPoll(pressed, acc)
                    \/ ErrorPoll(pressed)
            /\ \A pressed \in Pressed :
                 "HOME" \notin pressed =>
                    ~ \/ \E env \in StartServerEnvs : MenuPoll(pressed, env)
                      \/ \E acc \in AcceptOutcomes : WaitingPoll(pressed, acc)
                      \/ ErrorPoll(pressed)]_vars

\* C34's case: a session has returned and the application polls for the
\* next connection, the listening socket open and no client connection.
C34_Witness ==
    /\ pc = "main:loop" /\ current_state = "STATE_WAITING"
    /\ recv_buffer # <<>>
    /\ client_socket < 0 /\ open_socks.connected = {}
    /\ server_socket >= 0

====
